---- MODULE Spec2Model ----
(***************************************************************************)
(* A model of fireflower-audio: the AudioChannelManager (src/channel.js),  *)
(* the capture gate (capture-processor.js and the ScriptProcessor          *)
(* fallback of index.js), the playback jitter buffer                       *)
(* (playback-processor.js) and the framing of index.js.                    *)
(*                                                                         *)
(* The specifications of the module:                                       *)
(*   Spec      one node's AudioChannelManager fanning frames out to two    *)
(*             downstream peers, with the channels' states and gauges      *)
(*   SpecWire  one node's AudioChannelManager through start(), stop() and  *)
(*             the node's lifecycle events, one upstream and one           *)
(*             downstream peer                                             *)
(*   SpecTree  a chain source -> relay -> ... -> leaf built from the same  *)
(*             relay operators                                             *)
(*   SpecGate  one capture session of the voice activity gate              *)
(*   SpecPlay  one PlaybackProcessor                                       *)
(***************************************************************************)
EXTENDS Integers, Sequences, FiniteSets, TLC

(***************************************************************************)
(* Program constants                                                       *)
(***************************************************************************)
AUDIO_BACKPRESSURE_THRESHOLD == 200
\* index.js: HANGOVER_FRAMES, used by the ScriptProcessor capture fallback
HANGOVER_FRAMES == 15
\* capture-processor.js: this.HANGOVER_FRAMES of the worklet
WORKLET_HANGOVER_FRAMES == 5
\* playback-processor.js: underruns above this count start a new fill
UNDERRUN_LIMIT == 50

(***************************************************************************)
(* Bounds of the model                                                     *)
(***************************************************************************)
\* number of RTCDataChannel objects that may come to exist at one node
MaxChans == 3
\* relay hops below the source in the chain of SpecTree
Depth == 2
\* frames the source of SpecTree frames
MaxSrcFrames == 2
\* messages the capture worklet's port holds before the main thread runs
MaxPort == 2
\* sampleRate of the playback context: samples per second, the ring's length
SampleRate == 8
\* channel.length: samples of one call of PlaybackProcessor.process
Quantum == 3
\* samples of one 'samples' message
MaxEnq == 3
\* channel.length in SpecSteady, where it may not exceed a frame
SteadyQuantum == 1
\* start() calls of one pipeline object that get past the started flag
MaxStarts == 2
\* compressed frames one pipeline object counts
MaxCounted == 2
\* samples of the longest frame the capture graph delivers
MaxFrameLen == 2
\* samplesPerFrame of the capture paths: the samples of one frame
SamplesPerFrame == 3
\* samples of the longest chunk the audio thread hands to a capture path
MaxChunk == 4
\* SpecPcm: a raw sample is a multiple of 1/PcmDen
PcmDen == 200
\* SpecPcm: samples of the longest raw frame
MaxPcmLen == 2

(***************************************************************************)
(* Values                                                                  *)
(***************************************************************************)
NoPeer == "none"
NoChan == 0

UpId == "u"
DownIds == {"d1", "d2"}
PeerIds == {UpId} \cup DownIds

ChanIds == 1..MaxChans

\* wire frames: a leading tag byte and a payload
Frames == {<<0, 7>>, <<1, 9>>}

\* readings of RTCDataChannel.bufferedAmount around the threshold
GaugeVals == {0, AUDIO_BACKPRESSURE_THRESHOLD, AUDIO_BACKPRESSURE_THRESHOLD + 1}

EventNames == {"connect", "peerCreated", "datachannel", "peerdisconnect"}

VARIABLES
  started,      \* AudioChannelManager._started
  relay,        \* AudioChannelManager.relay
  listeners,    \* listeners the manager has registered on the node, per event
  upstream,     \* node.upstream: a peer id or NoPeer
  downstream,   \* node.downstream: peer ids in insertion (for-in) order
  peers,        \* the peer objects: life, _audio, _channels._audio
  chans,        \* the RTCDataChannel objects
  nextChan,     \* the next channel object to come to exist
  lastOp        \* what the last frame operation did (history)

relayVars == <<started, relay, listeners, upstream, downstream, peers, chans,
               nextChan, lastOp>>

VARIABLES
  tsrc,         \* SpecTree: what the source passed to _broadcastFrame, in order
  tlinks,       \* SpecTree: the sending channel of the link into node i
  tflight,      \* SpecTree: the frames in flight on the link into node i
  theard        \* SpecTree: the last frame node i emitted to its consumer

treeVars == <<tsrc, tlinks, tflight, theard>>

VARIABLES
  gpath,          \* SpecGate: "worklet" (AudioWorklet) or "script" (fallback)
  bVadEnabled,    \* AudioBroadcaster.vadEnabled
  bVadThreshold,  \* AudioBroadcaster.vadThreshold, in thousandths
  bSpeaking,      \* AudioBroadcaster._speaking
  vadHangover,    \* AudioBroadcaster._vadHangover
  wVadEnabled,    \* CaptureProcessor.vadEnabled
  wVadThreshold,  \* CaptureProcessor.vadThreshold, in thousandths
  speaking,       \* CaptureProcessor.speaking
  hangoverFrames, \* CaptureProcessor.hangoverFrames
  port,           \* messages posted by the worklet, not yet handled
  glast,          \* what the gate did with the last frame (history)
  blast,          \* what the main thread did last (history)
  gEv,            \* the last notification of the gate (history)
  bEv,            \* the last of 'speaking'/'silent' the broadcaster emitted
  lag,            \* notifications of the gate the broadcaster has not emitted
  quiet,          \* sub-threshold frames since the last speech frame, capped
  scen,           \* frames so far, while they follow ScenarioRms; else -1
  uiEnabled,      \* vadEnabledEl.checked of the page that runs the broadcaster
  uiThreshold,    \* the value of vadThresholdEl, in thousandths
  gset            \* the two controls as they stood at the last frame (history)

gateVars == <<gpath, bVadEnabled, bVadThreshold, bSpeaking, vadHangover,
              wVadEnabled, wVadThreshold, speaking, hangoverFrames, port,
              glast, blast, gEv, bEv, lag, quiet, scen, uiEnabled,
              uiThreshold, gset>>

VARIABLES
  jitterBufferSamples, \* SpecPlay: PlaybackProcessor.jitterBufferSamples
  ringBuffer,          \* PlaybackProcessor.ringBuffer, indexed from 0
  writeIndex,
  readIndex,
  bufferedSamples,
  buffering,
  underruns,
  nextSample,          \* the value of the next sample enqueued
  plast,               \* what the last enqueue or process call did (history)
  streak               \* no sample was read between the underruns counted

playVars == <<jitterBufferSamples, ringBuffer, writeIndex, readIndex,
              bufferedSamples, buffering, underruns, nextSample, plast,
              streak>>

VARIABLES
  tToFrame,   \* SpecSteady: sample times until the next decoded frame arrives
  tToTick     \* SpecSteady: sample times until the next process call

steadyVars == <<tToFrame, tToTick>>

VARIABLES
  pcmRaw,    \* SpecPcm: the captured frame, samples in units of 1/PcmDen
  pcmWire,   \* SpecPcm: the wire frame _broadcastFrame made of it, in bytes
  pcmOut,    \* SpecPcm: the samples the listener hands to _sendToWorklet
  pcmStage   \* SpecPcm: "raw", "sent" or "played"

pcmVars == <<pcmRaw, pcmWire, pcmOut, pcmStage>>

VARIABLES
  gatePair,      \* SpecGatePair: the capture worklet's gate and the fallback's
  gatePairLast,  \* what the two gates did with the last frame (history)
  playPair,      \* SpecPlayPair: the playback worklet's ring and the fallback's
  playPairLast,  \* what the two did in the last call (history)
  pairNext       \* SpecPlayPair: the value of the next sample enqueued

pairVars == <<gatePair, gatePairLast, playPair, playPairLast, pairNext>>

VARIABLES
  capPath,    \* SpecCapture: "worklet" or "script"
  capBuffer,  \* the accumulation buffer, indexed from 0
  capIndex,   \* bufferIndex or _captureBufferIndex
  capGate,    \* vadEnabled, vadThreshold, speaking and the hangover
  capLast     \* what the last call did (history)

capVars == <<capPath, capBuffer, capIndex, capGate, capLast>>

VARIABLES
  role,    \* SpecSession: "broadcaster" (AudioBroadcaster) or "listener"
  env,     \* SpecSession: what the browser offers (worklet, codec)
  pipe,    \* SpecSession: the fields of the AudioBroadcaster or AudioListener
  held,    \* SpecSession: the resources that exist, referenced or not
  shist,   \* SpecSession: how the last start() call went (history)
  slast    \* SpecSession: what the last frame did (history)

sessVars == <<role, env, pipe, held, shist, slast>>

vars == <<relayVars, treeVars, gateVars, playVars, steadyVars, sessVars, pcmVars, pairVars, capVars>>

(***************************************************************************)
(* Peer and channel objects                                                *)
(***************************************************************************)
NewPeer == [life |-> "absent", audio |-> NoChan, cached |-> NoChan]

NoChannel ==
  [label |-> "", readyState |-> "none", bufferedAmount |-> 0,
   onmessage |-> NoPeer, onopen |-> NoPeer, onclose |-> NoPeer,
   ordered |-> TRUE, maxRetransmits |-> -1, missed |-> FALSE]

\* peer.didConnect
DidConnect(p, ps) == ps[p].life = "connected"

\* peer.createDataChannel(label, opts): a new channel object, connecting
CreateDataChannel(label, ord, maxRetx) ==
  [NoChannel EXCEPT !.label = label, !.readyState = "connecting",
                    !.ordered = ord, !.maxRetransmits = maxRetx]

(***************************************************************************)
(* AudioChannelManager: wiring                                             *)
(***************************************************************************)
\* _wireUpstream(peer): the state is the pair of peer and channel objects
WireUpstream(p, ps, cs) ==
  IF ps[p].audio # NoChan /\ cs[ps[p].audio].readyState = "open"
  THEN [ps |-> ps, cs |-> [cs EXCEPT ![ps[p].audio].onmessage = p]]
  ELSE [ps |-> ps, cs |-> cs]

\* _wireIncomingAudioChannel(peer, channel)
WireIncomingAudioChannel(p, c, ps, cs) ==
  [ps |-> [ps EXCEPT ![p].audio = c],
   cs |-> [cs EXCEPT ![c].onmessage = p]]

\* _wireDownstream(peer), the variant that passes createDataChannel no
\* options
WireDownstreamReliable(p, c, ps, cs) ==
  [ps |-> [ps EXCEPT ![p].audio = c],
   cs |-> [cs EXCEPT ![c] = [CreateDataChannel("_audio", TRUE, -1)
                               EXCEPT !.onopen = p, !.onclose = p]]]

\* _wireDownstream(peer): c is the channel object createDataChannel returns
WireDownstream(p, c, ps, cs) ==
  [ps |-> [ps EXCEPT ![p].audio = c],
   cs |-> [cs EXCEPT ![c] = [CreateDataChannel("_audio", FALSE, 0)
                               EXCEPT !.onopen = p, !.onclose = p]]]

(***************************************************************************)
(* AudioChannelManager: relay                                              *)
(***************************************************************************)
\* what _sendToPeer did for one peer: it was called (attempts), it called
\* send() (sends), it emitted 'drop' (drops), the channel took the frame (got),
\* an exception left it (threw)
NoResult ==
  [attempts |-> 0, sends |-> 0, drops |-> 0, got |-> <<>>, threw |-> FALSE]

\* _sendToPeer(peer, data), the variant that tests the gauge before the
\* channel's state
SendToPeerGaugeFirst(p, data, thr, ps, cs) ==
  LET c == ps[p].audio IN
  IF c = NoChan THEN [NoResult EXCEPT !.attempts = 1]
  ELSE IF cs[c].bufferedAmount >= AUDIO_BACKPRESSURE_THRESHOLD
       THEN [NoResult EXCEPT !.attempts = 1, !.drops = 1]
  ELSE IF cs[c].readyState # "open" THEN [NoResult EXCEPT !.attempts = 1]
  ELSE IF p \in thr
       THEN [NoResult EXCEPT !.attempts = 1, !.sends = 1]
  ELSE [NoResult EXCEPT !.attempts = 1, !.sends = 1, !.got = <<data>>]

\* _sendToPeer(peer, data), the variant that lets a failing send() escape
SendToPeerNoCatch(p, data, thr, ps, cs) ==
  LET c == ps[p].audio IN
  IF c = NoChan THEN [NoResult EXCEPT !.attempts = 1]
  ELSE IF cs[c].readyState # "open" THEN [NoResult EXCEPT !.attempts = 1]
  ELSE IF cs[c].bufferedAmount > AUDIO_BACKPRESSURE_THRESHOLD
       THEN [NoResult EXCEPT !.attempts = 1, !.drops = 1]
  ELSE IF p \in thr
       THEN [NoResult EXCEPT !.attempts = 1, !.sends = 1, !.threw = TRUE]
  ELSE [NoResult EXCEPT !.attempts = 1, !.sends = 1, !.got = <<data>>]

\* _sendToPeer(peer, data), the variant that reports a failing send() as a
\* drop and sends again
SendToPeerDropAndRetry(p, data, thr, ps, cs) ==
  LET c == ps[p].audio IN
  IF c = NoChan THEN [NoResult EXCEPT !.attempts = 1]
  ELSE IF cs[c].readyState # "open" THEN [NoResult EXCEPT !.attempts = 1]
  ELSE IF cs[c].bufferedAmount > AUDIO_BACKPRESSURE_THRESHOLD
       THEN [NoResult EXCEPT !.attempts = 1, !.drops = 1]
  ELSE IF p \in thr
       THEN [NoResult EXCEPT !.attempts = 1, !.sends = 2, !.drops = 1]
  ELSE [NoResult EXCEPT !.attempts = 1, !.sends = 1, !.got = <<data>>]

\* _sendToPeer(peer, data), the variant that drops at the threshold already
SendToPeerDropAtThreshold(p, data, thr, ps, cs) ==
  LET c == ps[p].audio IN
  IF c = NoChan THEN [NoResult EXCEPT !.attempts = 1]
  ELSE IF cs[c].readyState # "open" THEN [NoResult EXCEPT !.attempts = 1]
  ELSE IF cs[c].bufferedAmount >= AUDIO_BACKPRESSURE_THRESHOLD
       THEN [NoResult EXCEPT !.attempts = 1, !.drops = 1]
  ELSE IF p \in thr
       THEN [NoResult EXCEPT !.attempts = 1, !.sends = 1]
  ELSE [NoResult EXCEPT !.attempts = 1, !.sends = 1, !.got = <<data>>]

\* _sendToPeer(peer, data): thr is the set of peers whose send() throws
SendToPeer(p, data, thr, ps, cs) ==
  LET c == ps[p].audio IN
  IF c = NoChan THEN [NoResult EXCEPT !.attempts = 1]
  ELSE IF cs[c].readyState # "open" THEN [NoResult EXCEPT !.attempts = 1]
  ELSE IF cs[c].bufferedAmount > AUDIO_BACKPRESSURE_THRESHOLD
       THEN [NoResult EXCEPT !.attempts = 1, !.drops = 1]
  ELSE IF p \in thr
       THEN [NoResult EXCEPT !.attempts = 1, !.sends = 1]   \* caught
  ELSE [NoResult EXCEPT !.attempts = 1, !.sends = 1, !.got = <<data>>]

\* _relayToDownstream(data): the for-in loop over node.downstream; an
\* exception leaving _sendToPeer ends the loop
RECURSIVE RelayLoop(_, _, _, _, _, _)
RelayLoop(ds, data, thr, ps, cs, acc) ==
  IF ds = <<>> THEN acc
  ELSE LET p == Head(ds)
           r == SendToPeer(p, data, thr, ps, cs)
           acc2 == [acc EXCEPT ![p] = r]
       IN IF r.threw THEN acc2
          ELSE RelayLoop(Tail(ds), data, thr, ps, cs, acc2)

RelayToDownstream(ds, data, thr, ps, cs) ==
  RelayLoop(ds, data, thr, ps, cs, [p \in PeerIds |-> NoResult])

\* broadcast(data)
Broadcast(ds, data, thr, ps, cs) == RelayToDownstream(ds, data, thr, ps, cs)

\* _onAudioData(fromPeer, data), the variant that relays the payload under a
\* header of its own
OnAudioDataReframed(rel, ds, data, thr, ps, cs) ==
  [emits |-> 1,
   emitted |-> data,
   res |-> IF rel THEN RelayToDownstream(ds, <<0>> \o Tail(data), thr, ps, cs)
           ELSE [p \in PeerIds |-> NoResult]]

\* _onAudioData(fromPeer, data), the variant that relays whatever the flag
OnAudioDataAlwaysRelay(rel, ds, data, thr, ps, cs) ==
  [emits |-> 1,
   emitted |-> data,
   res |-> RelayToDownstream(ds, data, thr, ps, cs)]

\* _onAudioData(fromPeer, data): emits 'audio', then relays when enabled
OnAudioData(rel, ds, data, thr, ps, cs) ==
  [emits |-> 1,
   emitted |-> data,
   res |-> IF rel THEN RelayToDownstream(ds, data, thr, ps, cs)
           ELSE [p \in PeerIds |-> NoResult]]

(***************************************************************************)
(* AudioBroadcaster: framing                                               *)
(***************************************************************************)
\* _broadcastFrame(buffer, isOpus): the frame handed to broadcast()
BroadcastFrame(buffer, isOpus) == <<IF isOpus THEN 1 ELSE 0>> \o buffer

(***************************************************************************)
(* The capture gate.  A frame is given by its RMS in thousandths.          *)
(***************************************************************************)
\* CaptureProcessor._processFrame, the variant that posts the notification
\* on every speech frame
WorkletProcessFrameEveryFrame(rms, st) ==
  LET isSpeech == rms >= st.vadThreshold
      sp == IF isSpeech THEN TRUE
            ELSE IF st.hangoverFrames > 0 THEN st.speaking
            ELSE FALSE
      ho == IF isSpeech THEN WORKLET_HANGOVER_FRAMES
            ELSE IF st.hangoverFrames > 0 THEN st.hangoverFrames - 1
            ELSE st.hangoverFrames
      ev == IF isSpeech THEN "started"
            ELSE IF st.hangoverFrames = 0 /\ st.speaking THEN "stopped"
            ELSE "none"
  IN [speaking |-> sp, hangoverFrames |-> ho, ev |-> ev,
      pass |-> (~st.vadEnabled \/ sp \/ ho > 0)]

\* CaptureProcessor._processFrame, the variant that decides on the state
\* before the update
WorkletProcessFrameStale(rms, st) ==
  LET isSpeech == rms >= st.vadThreshold
      sp == IF isSpeech THEN TRUE
            ELSE IF st.hangoverFrames > 0 THEN st.speaking
            ELSE FALSE
      ho == IF isSpeech THEN WORKLET_HANGOVER_FRAMES
            ELSE IF st.hangoverFrames > 0 THEN st.hangoverFrames - 1
            ELSE st.hangoverFrames
      ev == IF isSpeech /\ ~st.speaking THEN "started"
            ELSE IF ~isSpeech /\ st.hangoverFrames = 0 /\ st.speaking THEN "stopped"
            ELSE "none"
  IN [speaking |-> sp, hangoverFrames |-> ho, ev |-> ev,
      pass |-> (~st.vadEnabled \/ st.speaking \/ st.hangoverFrames > 0)]

\* CaptureProcessor._processFrame, the variant that stops speaking as soon as
\* a frame is below the threshold
WorkletProcessFrameNoHangover(rms, st) ==
  LET isSpeech == rms >= st.vadThreshold
      sp == isSpeech
      ho == IF isSpeech THEN WORKLET_HANGOVER_FRAMES ELSE 0
      ev == IF isSpeech /\ ~st.speaking THEN "started"
            ELSE IF ~isSpeech /\ st.speaking THEN "stopped"
            ELSE "none"
  IN [speaking |-> sp, hangoverFrames |-> ho, ev |-> ev,
      pass |-> (~st.vadEnabled \/ sp \/ ho > 0)]

\* CaptureProcessor._processFrame: st is the processor's vadEnabled,
\* vadThreshold, speaking and hangoverFrames; ev is the 'vad' message posted
\* and pass says whether the 'frame' message is posted
WorkletProcessFrame(rms, st) ==
  LET isSpeech == rms >= st.vadThreshold
      sp == IF isSpeech THEN TRUE
            ELSE IF st.hangoverFrames > 0 THEN st.speaking
            ELSE FALSE
      ho == IF isSpeech THEN WORKLET_HANGOVER_FRAMES
            ELSE IF st.hangoverFrames > 0 THEN st.hangoverFrames - 1
            ELSE st.hangoverFrames
      ev == IF isSpeech /\ ~st.speaking THEN "started"
            ELSE IF ~isSpeech /\ st.hangoverFrames = 0 /\ st.speaking THEN "stopped"
            ELSE "none"
  IN [speaking |-> sp, hangoverFrames |-> ho, ev |-> ev,
      pass |-> (~st.vadEnabled \/ sp \/ ho > 0)]

\* the frame branch of onaudioprocess, the variant that clears the speaking
\* flag on the first frame below the threshold and lets the hangover run on
ScriptProcessFrameSilentFirst(rms, st) ==
  LET isSpeech == rms >= st.vadThreshold
      sp == isSpeech
      ho == IF isSpeech THEN HANGOVER_FRAMES
            ELSE IF st.hangoverFrames > 0 THEN st.hangoverFrames - 1
            ELSE st.hangoverFrames
      ev == IF isSpeech /\ ~st.speaking THEN "started"
            ELSE IF ~isSpeech /\ st.speaking THEN "stopped"
            ELSE "none"
  IN [speaking |-> sp, hangoverFrames |-> ho, ev |-> ev,
      pass |-> (~st.vadEnabled \/ sp \/ ho > 0)]

\* the frame branch of onaudioprocess, the variant that leaves the gate's
\* state alone while gating is disabled
ScriptProcessFrameBypass(rms, st) ==
  LET isSpeech == rms >= st.vadThreshold
      sp == IF ~st.vadEnabled THEN st.speaking
            ELSE IF isSpeech THEN TRUE
            ELSE IF st.hangoverFrames > 0 THEN st.speaking
            ELSE FALSE
      ho == IF ~st.vadEnabled THEN st.hangoverFrames
            ELSE IF isSpeech THEN HANGOVER_FRAMES
            ELSE IF st.hangoverFrames > 0 THEN st.hangoverFrames - 1
            ELSE st.hangoverFrames
      ev == IF ~st.vadEnabled THEN "none"
            ELSE IF isSpeech /\ ~st.speaking THEN "started"
            ELSE IF ~isSpeech /\ st.hangoverFrames = 0 /\ st.speaking THEN "stopped"
            ELSE "none"
  IN [speaking |-> sp, hangoverFrames |-> ho, ev |-> ev,
      pass |-> (~st.vadEnabled \/ sp \/ ho > 0)]

\* the frame branch of onaudioprocess in _setupCaptureScriptProcessor: st is
\* the broadcaster's vadEnabled, vadThreshold, _speaking and _vadHangover; ev
\* is the event emitted and pass says whether _onFrame is called
ScriptProcessFrame(rms, st) ==
  LET isSpeech == rms >= st.vadThreshold
      sp == IF isSpeech THEN TRUE
            ELSE IF st.hangoverFrames > 0 THEN st.speaking
            ELSE FALSE
      ho == IF isSpeech THEN HANGOVER_FRAMES
            ELSE IF st.hangoverFrames > 0 THEN st.hangoverFrames - 1
            ELSE st.hangoverFrames
      ev == IF isSpeech /\ ~st.speaking THEN "started"
            ELSE IF ~isSpeech /\ st.hangoverFrames = 0 /\ st.speaking THEN "stopped"
            ELSE "none"
  IN [speaking |-> sp, hangoverFrames |-> ho, ev |-> ev,
      pass |-> (~st.vadEnabled \/ sp \/ ho > 0)]

\* the 'vad' branch of _workletNode.port.onmessage: the event emitted
OnVadMessage(msgSpeaking, wasSpeaking) ==
  IF msgSpeaking /\ ~wasSpeaking THEN "speaking"
  ELSE IF ~msgSpeaking /\ wasSpeaking THEN "silent"
  ELSE "none"

(***************************************************************************)
(* The playout ring of the playback worklet.  st holds ringBuffer,         *)
(* writeIndex, readIndex, bufferedSamples, buffering and underruns.        *)
(***************************************************************************)
RECURSIVE EnqueueLoopDropNewest(_, _)
\* the for loop of _enqueueSamples, the variant that leaves a full ring as
\* it is
EnqueueLoopDropNewest(st, samples) ==
  IF samples = <<>> THEN st
  ELSE LET len == SampleRate
           over == st.bufferedSamples + 1 > len
           st1 == IF over THEN st
                  ELSE [st EXCEPT
                          !.ringBuffer = [@ EXCEPT ![st.writeIndex] = Head(samples)],
                          !.writeIndex = (st.writeIndex + 1) % len,
                          !.bufferedSamples = st.bufferedSamples + 1]
       IN EnqueueLoopDropNewest(st1, Tail(samples))

RECURSIVE EnqueueLoopKeepRead(_, _)
\* the for loop of _enqueueSamples, the variant whose overflow branch takes
\* the count back without advancing readIndex
EnqueueLoopKeepRead(st, samples) ==
  IF samples = <<>> THEN st
  ELSE LET len == SampleRate
           over == st.bufferedSamples + 1 > len
           st1 == [st EXCEPT
                     !.ringBuffer = [@ EXCEPT ![st.writeIndex] = Head(samples)],
                     !.writeIndex = (st.writeIndex + 1) % len,
                     !.bufferedSamples = IF over THEN st.bufferedSamples
                                         ELSE st.bufferedSamples + 1]
       IN EnqueueLoopKeepRead(st1, Tail(samples))

RECURSIVE EnqueueLoop(_, _)
\* the for loop of _enqueueSamples
EnqueueLoop(st, samples) ==
  IF samples = <<>> THEN st
  ELSE LET len == SampleRate
           over == st.bufferedSamples + 1 > len
           st1 == [st EXCEPT
                     !.ringBuffer = [@ EXCEPT ![st.writeIndex] = Head(samples)],
                     !.writeIndex = (st.writeIndex + 1) % len,
                     !.readIndex = IF over THEN (st.readIndex + 1) % len
                                   ELSE st.readIndex,
                     !.bufferedSamples = IF over THEN st.bufferedSamples
                                         ELSE st.bufferedSamples + 1]
       IN EnqueueLoop(st1, Tail(samples))

\* _enqueueSamples(samples), the variant that ends the fill on any message
EnqueueSamplesAnyFill(st, samples, target) ==
  LET st1 == EnqueueLoop(st, samples)
  IN [st1 EXCEPT !.buffering = FALSE]

\* _enqueueSamples(samples)
EnqueueSamples(st, samples, target) ==
  LET st1 == EnqueueLoop(st, samples)
  IN IF st1.buffering /\ st1.bufferedSamples >= target
     THEN [st1 EXCEPT !.buffering = FALSE]
     ELSE st1

RECURSIVE ProcessLoop(_, _, _)
\* the second for loop of process: j samples remain, out is the channel so far
ProcessLoop(st, j, out) ==
  IF j = 0 THEN [st |-> st, out |-> out]
  ELSE IF st.bufferedSamples > 0
       THEN ProcessLoop([st EXCEPT
                           !.readIndex = (st.readIndex + 1) % SampleRate,
                           !.bufferedSamples = st.bufferedSamples - 1],
                        j - 1, Append(out, st.ringBuffer[st.readIndex]))
       ELSE LET again == st.underruns + 1 > UNDERRUN_LIMIT
            IN ProcessLoop([st EXCEPT
                              !.underruns = IF again THEN 0 ELSE st.underruns + 1,
                              !.buffering = IF again THEN TRUE ELSE st.buffering],
                           j - 1, Append(out, 0))

\* process(inputs, outputs), the variant that reads the ring during the fill
PlaybackProcessDuringFill(st, n) == ProcessLoop(st, n, <<>>)

\* process(inputs, outputs), the variant that never starts a new fill
PlaybackProcessNoRebuffer(st, n) ==
  IF st.buffering THEN [st |-> st, out |-> [i \in 1..n |-> 0]]
  ELSE LET r == ProcessLoop(st, n, <<>>)
       IN [st |-> [r.st EXCEPT !.buffering = FALSE], out |-> r.out]

\* process(inputs, outputs), the variant that writes the sample it read
\* first to every position it reads for
PlaybackProcessRepeat(st, n) ==
  IF st.buffering THEN [st |-> st, out |-> [i \in 1..n |-> 0]]
  ELSE LET r == ProcessLoop(st, n, <<>>)
       IN [st |-> r.st,
           out |-> [i \in 1..n |-> IF i <= st.bufferedSamples THEN r.out[1]
                                    ELSE r.out[i]]]

\* process(inputs, outputs) for a channel of n samples
PlaybackProcess(st, n) ==
  IF st.buffering THEN [st |-> st, out |-> [i \in 1..n |-> 0]]
  ELSE ProcessLoop(st, n, <<>>)

(***************************************************************************)
(* AudioListener and AudioBroadcaster: the frame handlers.  p is the       *)
(* pipeline object.                                                        *)
(***************************************************************************)
\* what one call of a frame handler did: 'audio' and 'unsupported' events
\* emitted, sample blocks handed to _sendToWorklet, those of them that
\* reached a playout node, frames handed to the encoder
NoEffect ==
  [audio |-> 0, unsupported |-> 0, sent |-> 0, played |-> 0, encoded |-> 0]

\* _sendToWorklet(samples): whether the samples reach a playout node
SendToWorklet(p) == p.useSP \/ p.worklet

\* AudioListener._onAudioData(data), the variant that warns on every frame
\* it cannot decode
ListenerOnAudioDataWarnAlways(p, data) ==
  IF Len(data) < 2 THEN [p |-> p, eff |-> NoEffect]
  ELSE IF Head(data) = 1
  THEN IF p.codec \in {"opus", "wasm"}
       THEN [p |-> [p EXCEPT !.frameCount = @ + 1],
             eff |-> [NoEffect EXCEPT !.audio = 1, !.sent = 1,
                        !.played = IF SendToWorklet(p) THEN 1 ELSE 0]]
       ELSE [p |-> [p EXCEPT !.warnedOpus = TRUE],
             eff |-> [NoEffect EXCEPT !.unsupported = 1]]
  ELSE [p |-> p,
        eff |-> [NoEffect EXCEPT !.audio = 1, !.sent = 1,
                   !.played = IF SendToWorklet(p) THEN 1 ELSE 0]]

\* AudioListener._onAudioData(data): a frame of fewer than two bytes is
\* ignored; tag 1 goes to the decoder the listener holds, whose output is
\* handed to _sendToWorklet, or is dropped with one 'unsupported' per
\* object; any other tag is converted as PCM
ListenerOnAudioData(p, data) ==
  IF Len(data) < 2 THEN [p |-> p, eff |-> NoEffect]
  ELSE IF Head(data) = 1
  THEN IF p.codec \in {"opus", "wasm"}
       THEN [p |-> [p EXCEPT !.frameCount = @ + 1],
             eff |-> [NoEffect EXCEPT !.audio = 1, !.sent = 1,
                        !.played = IF SendToWorklet(p) THEN 1 ELSE 0]]
       ELSE [p |-> [p EXCEPT !.warnedOpus = TRUE],
             eff |-> [NoEffect EXCEPT
                        !.unsupported = IF p.warnedOpus THEN 0 ELSE 1]]
  ELSE [p |-> p,
        eff |-> [NoEffect EXCEPT !.audio = 1, !.sent = 1,
                   !.played = IF SendToWorklet(p) THEN 1 ELSE 0]]

\* opts.sampleRate || DEFAULT_SAMPLE_RATE
DEFAULT_SAMPLE_RATE == 48000
\* microseconds of a second
MICROS_PER_SECOND == 1000000
\* the microseconds _onAudioData counts for one compressed frame
DECODE_FRAME_MICROS == 20000
\* DEFAULT_FRAME_SIZE, in ms
DEFAULT_FRAME_SIZE == 20

\* _onFrame: the timestamp of the AudioData handed to the WebCodecs encoder
EncodeTimestamp(p) == (p.sampleCount * MICROS_PER_SECOND) \div DEFAULT_SAMPLE_RATE

\* _onAudioData: the timestamp of the EncodedAudioChunk handed to the
\* WebCodecs decoder
DecodeTimestamp(p) == p.frameCount * DECODE_FRAME_MICROS

RECURSIVE EmitAudio(_, _, _, _)
\* channelManager.emit('audio', data): each of the n listeners that start()
\* registered runs _onAudioData; acc adds up what they did
EmitAudio(p, data, n, acc) ==
  IF n = 0 THEN [p |-> p, eff |-> acc]
  ELSE LET o == ListenerOnAudioData(p, data)
       IN EmitAudio(o.p, data, n - 1,
                    [k \in DOMAIN acc |-> acc[k] + o.eff[k]])

\* AudioBroadcaster._onFrame(samples): without an encoder the frame is
\* dropped; the compressed encoder counts the frame's samples
OnFrame(p, samples) ==
  IF p.codec = "null" THEN [p |-> p, encoded |-> 0]
  ELSE IF p.codec = "opus"
  THEN [p |-> [p EXCEPT !.sampleCount = @ + samples], encoded |-> 1]
  ELSE [p |-> p, encoded |-> 1]

(***************************************************************************)
(* History: what the last frame operation did.  Every other step clears    *)
(* it, and a frame operation changes no peer or channel, so while lastOp   *)
(* names an operation the peers and channels are those it saw.             *)
(***************************************************************************)
InSeq(x, s) == \E i \in 1..Len(s) : s[i] = x

NoOp ==
  [kind |-> "none", data |-> <<>>, chan |-> NoChan, from |-> NoPeer,
   thr |-> {}, emits |-> 0, emitted |-> <<>>,
   res |-> [p \in PeerIds |-> NoResult]]

(***************************************************************************)
(* The node and its manager: operations and events                         *)
(***************************************************************************)
InitRelay ==
  /\ started = FALSE
  /\ relay \in BOOLEAN
  /\ listeners = [e \in EventNames |-> 0]
  /\ upstream = NoPeer
  /\ downstream = <<>>
  /\ peers = [p \in PeerIds |-> NewPeer]
  /\ chans = [c \in ChanIds |-> NoChannel]
  /\ nextChan = 1
  /\ lastOp = NoOp

\* the sweep of start() over the existing downstream peers
RECURSIVE StartSweep(_, _, _, _)
StartSweep(ds, n, ps, cs) ==
  IF ds = <<>> THEN [ps |-> ps, cs |-> cs, n |-> n]
  ELSE IF DidConnect(Head(ds), ps)
       THEN LET w == WireDownstream(Head(ds), n, ps, cs)
            IN StartSweep(Tail(ds), n + 1, w.ps, w.cs)
       ELSE StartSweep(Tail(ds), n, ps, cs)

ConnectedDown(ds, ps) == Cardinality({i \in 1..Len(ds) : DidConnect(ds[i], ps)})

\* start(), the variant without the test of _started
StartUnguarded ==
  /\ nextChan + ConnectedDown(downstream, peers) <= MaxChans + 1
  /\ LET u == IF upstream # NoPeer /\ DidConnect(upstream, peers)
              THEN WireUpstream(upstream, peers, chans)
              ELSE [ps |-> peers, cs |-> chans]
         s == StartSweep(downstream, nextChan, u.ps, u.cs)
     IN /\ peers' = s.ps
        /\ chans' = s.cs
        /\ nextChan' = s.n
  /\ started' = TRUE
  /\ listeners' = [e \in EventNames |-> listeners[e] + 1]
  /\ lastOp' = [NoOp EXCEPT !.kind = IF started THEN "restart" ELSE "none"]
  /\ UNCHANGED <<relay, upstream, downstream>>

\* start(): returns at once when started (lastOp notes the call); else the
\* sweep over the existing peers, then the four registrations
Start ==
  IF started
  THEN /\ lastOp' = [NoOp EXCEPT !.kind = "restart"]
       /\ UNCHANGED <<started, relay, listeners, upstream, downstream, peers,
                      chans, nextChan>>
  ELSE
    /\ nextChan + ConnectedDown(downstream, peers) <= MaxChans + 1
    /\ LET u == IF upstream # NoPeer /\ DidConnect(upstream, peers)
                THEN WireUpstream(upstream, peers, chans)
                ELSE [ps |-> peers, cs |-> chans]
           s == StartSweep(downstream, nextChan, u.ps, u.cs)
       IN /\ peers' = s.ps
          /\ chans' = s.cs
          /\ nextChan' = s.n
    /\ started' = TRUE
    /\ listeners' = [e \in EventNames |-> listeners[e] + 1]
    /\ lastOp' = NoOp
    /\ UNCHANGED <<relay, upstream, downstream>>

\* stop(), the variant that leaves the 'datachannel' listener registered
StopKeepsDatachannel ==
  IF ~started
  THEN /\ lastOp' = [NoOp EXCEPT !.kind = "restop"]
       /\ UNCHANGED <<started, relay, listeners, upstream, downstream, peers,
                      chans, nextChan>>
  ELSE
    /\ started' = FALSE
    /\ listeners' = [e \in EventNames |->
                       IF listeners[e] > 0 /\ e # "datachannel"
                       THEN listeners[e] - 1 ELSE listeners[e]]
    /\ lastOp' = [NoOp EXCEPT !.kind = "stop"]
    /\ UNCHANGED <<relay, upstream, downstream, peers, chans, nextChan>>

\* stop(): returns at once when not started (lastOp notes the call); else
\* removes the four listeners
Stop ==
  IF ~started
  THEN /\ lastOp' = [NoOp EXCEPT !.kind = "restop"]
       /\ UNCHANGED <<started, relay, listeners, upstream, downstream, peers,
                      chans, nextChan>>
  ELSE
    /\ started' = FALSE
    /\ listeners' = [e \in EventNames |->
                       IF listeners[e] > 0 THEN listeners[e] - 1 ELSE 0]
    /\ lastOp' = [NoOp EXCEPT !.kind = "stop"]
    /\ UNCHANGED <<relay, upstream, downstream, peers, chans, nextChan>>

\* the topology layer creates the upstream peer object
EvUpstreamCreated ==
  /\ upstream = NoPeer
  /\ peers[UpId].life = "absent"
  /\ upstream' = UpId
  /\ peers' = [peers EXCEPT ![UpId].life = "created"]
  /\ lastOp' = NoOp
  /\ UNCHANGED <<started, relay, listeners, downstream, chans, nextChan>>

\* node 'connect': the upstream peer connected; handler of start() line 55
EvConnect ==
  /\ upstream # NoPeer
  /\ peers[upstream].life = "created"
  /\ LET ps1 == [peers EXCEPT ![upstream].life = "connected"]
         w == IF listeners["connect"] > 0
              THEN WireUpstream(upstream, ps1, chans)
              ELSE [ps |-> ps1, cs |-> chans]
     IN /\ peers' = w.ps
        /\ chans' = w.cs
  /\ lastOp' = NoOp
  /\ UNCHANGED <<started, relay, listeners, upstream, downstream, nextChan>>

\* node 'peerCreated': a downstream peer object was created; handler line 63
EvPeerCreated(p) ==
  /\ peers[p].life = "absent"
  /\ downstream' = Append(downstream, p)
  /\ LET ps1 == [peers EXCEPT ![p].life = "created"]
     IN IF listeners["peerCreated"] > 0
        THEN /\ nextChan <= MaxChans
             /\ LET w == WireDownstream(p, nextChan, ps1, chans)
                IN /\ peers' = w.ps
                   /\ chans' = w.cs
             /\ nextChan' = nextChan + 1
        ELSE /\ peers' = ps1
             /\ UNCHANGED <<chans, nextChan>>
  /\ lastOp' = NoOp
  /\ UNCHANGED <<started, relay, listeners, upstream>>

\* the downstream peer finished connecting (peer.didConnect)
EvPeerConnect(p) ==
  /\ peers[p].life = "created"
  /\ peers' = [peers EXCEPT ![p].life = "connected"]
  /\ lastOp' = NoOp
  /\ UNCHANGED <<started, relay, listeners, upstream, downstream, chans, nextChan>>

\* node 'datachannel', the variant that wires a channel of any label
EvDatachannelAnyLabel(p, label) ==
  /\ peers[p].life \in {"created", "connected"}
  /\ nextChan <= MaxChans
  /\ LET c == nextChan
         cs1 == [chans EXCEPT ![c] =
                   [NoChannel EXCEPT
                      !.label = label, !.readyState = "open",
                      !.missed = (listeners["datachannel"] = 0)]]
         ps1 == [peers EXCEPT ![p].cached = c]
         w == IF listeners["datachannel"] > 0
              THEN WireIncomingAudioChannel(p, c, ps1, cs1)
              ELSE [ps |-> ps1, cs |-> cs1]
     IN /\ peers' = w.ps
        /\ chans' = w.cs
  /\ nextChan' = nextChan + 1
  /\ lastOp' = IF label = "_audio" THEN NoOp
               ELSE [NoOp EXCEPT !.kind = "offerOther", !.from = p]
  /\ UNCHANGED <<started, relay, listeners, upstream, downstream>>

\* node 'datachannel': an open channel offered by peer p arrived; the
\* topology layer keeps it in peer._channels[label]; handler of start() line 69.
\* lastOp notes an offer under another label.
EvDatachannel(p, label) ==
  /\ peers[p].life \in {"created", "connected"}
  /\ IF label = "_audio"
     THEN /\ nextChan <= MaxChans
          /\ LET c == nextChan
                 cs1 == [chans EXCEPT ![c] =
                           [NoChannel EXCEPT
                              !.label = label, !.readyState = "open",
                              !.missed = (listeners["datachannel"] = 0)]]
                 ps1 == [peers EXCEPT ![p].cached = c]
                 w == IF listeners["datachannel"] > 0
                      THEN WireIncomingAudioChannel(p, c, ps1, cs1)
                      ELSE [ps |-> ps1, cs |-> cs1]
             IN /\ peers' = w.ps
                /\ chans' = w.cs
          /\ nextChan' = nextChan + 1
          /\ lastOp' = NoOp
     ELSE /\ UNCHANGED <<peers, chans, nextChan>>   \* no reference is kept
          /\ lastOp' = [NoOp EXCEPT !.kind = "offerOther", !.from = p]
  /\ UNCHANGED <<started, relay, listeners, upstream, downstream>>

RemoveFrom(s, x) == SelectSeq(s, LAMBDA y : y # x)

\* node 'peerdisconnect': the peer left the node; handler of start() line 77
EvPeerDisconnect(p) ==
  /\ peers[p].life \in {"created", "connected"}
  /\ upstream' = IF upstream = p THEN NoPeer ELSE upstream
  /\ downstream' = RemoveFrom(downstream, p)
  /\ peers' = [peers EXCEPT ![p].life = "gone",
                            ![p].audio = IF listeners["peerdisconnect"] > 0
                                         THEN NoChan ELSE @]
  /\ lastOp' = NoOp
  /\ UNCHANGED <<started, relay, listeners, chans, nextChan>>

\* a channel opens; its onopen handler only emits 'channel:open'
ChanOpen(c) ==
  /\ chans[c].readyState = "connecting"
  /\ chans' = [chans EXCEPT ![c].readyState = "open"]
  /\ lastOp' = NoOp
  /\ UNCHANGED <<started, relay, listeners, upstream, downstream, peers, nextChan>>

\* a channel starts to close: what is queued stays queued
ChanClosing(c) ==
  /\ chans[c].readyState = "open"
  /\ chans[c].onclose # NoPeer
  /\ chans' = [chans EXCEPT ![c].readyState = "closing"]
  /\ lastOp' = NoOp
  /\ UNCHANGED <<started, relay, listeners, upstream, downstream, peers, nextChan>>

\* a channel closes; the onclose handler _wireDownstream installed runs.
\* bufferedAmount keeps its last value on a closed channel.
ChanClose(c) ==
  /\ chans[c].readyState \in {"connecting", "open", "closing"}
  /\ chans' = [chans EXCEPT ![c] = [NoChannel EXCEPT
                                      !.label = chans[c].label,
                                      !.readyState = "closed",
                                      !.bufferedAmount = chans[c].bufferedAmount]]
  /\ peers' = IF chans[c].onclose # NoPeer
              THEN [peers EXCEPT ![chans[c].onclose].audio = NoChan]
              ELSE peers
  /\ lastOp' = NoOp
  /\ UNCHANGED <<started, relay, listeners, upstream, downstream, nextChan>>

\* the amount queued on an open channel the node sends on changes
GaugeSet(c, g) ==
  /\ chans[c].readyState = "open"
  /\ chans[c].onclose # NoPeer
  /\ chans[c].bufferedAmount # g
  /\ chans' = [chans EXCEPT ![c].bufferedAmount = g]
  /\ lastOp' = NoOp
  /\ UNCHANGED <<started, relay, listeners, upstream, downstream, peers, nextChan>>

\* a message arrives on channel c: its onmessage handler, if any, runs
\* _onAudioData
RecvFrame(c, f, thr) ==
  /\ chans[c].readyState = "open"
  /\ LET h == chans[c].onmessage
         o == OnAudioData(relay, downstream, f, thr, peers, chans)
     IN lastOp' =
          IF h = NoPeer
          THEN [NoOp EXCEPT !.kind = "unheard", !.data = f, !.chan = c]
          ELSE [kind |-> "recv", data |-> f, chan |-> c, from |-> h,
                thr |-> IF relay THEN thr ELSE {},
                emits |-> o.emits, emitted |-> o.emitted, res |-> o.res]
  /\ UNCHANGED <<started, relay, listeners, upstream, downstream, peers, chans,
                 nextChan>>

\* the broadcaster calls broadcast(frame)
DoBroadcast(f, thr) ==
  /\ lastOp' = [NoOp EXCEPT !.kind = "broadcast", !.data = f, !.thr = thr,
                            !.res = Broadcast(downstream, f, thr, peers, chans)]
  /\ UNCHANGED <<started, relay, listeners, upstream, downstream, peers, chans,
                 nextChan>>

\* the peers whose send() can be reached, the only ones whose failure shows
Sendable(p) ==
  /\ InSeq(p, downstream)
  /\ peers[p].audio # NoChan
  /\ chans[peers[p].audio].readyState = "open"
  /\ chans[peers[p].audio].bufferedAmount <= AUDIO_BACKPRESSURE_THRESHOLD

(***************************************************************************)
(* Spec: fan-out.  The downstream peers are named in the order the         *)
(* topology layer creates them; the upstream neighbour offers its audio    *)
(* channel once.                                                           *)
(***************************************************************************)
IdleTree ==
  /\ tsrc = <<>>
  /\ tlinks = [i \in 1..Depth |-> CreateDataChannel("_audio", FALSE, 0)]
  /\ tflight = [i \in 1..Depth |-> <<>>]
  /\ theard = [i \in 1..Depth |-> <<>>]

NoFrame ==
  [seen |-> FALSE, rms |-> 0, was |-> FALSE, now |-> FALSE, ev |-> "none",
   prevEv |-> "none", pass |-> FALSE, quietBefore |-> 0]

NoMain == [kind |-> "none", ev |-> "none", prevEv |-> "none"]

IdleGate ==
  /\ gpath = "worklet"
  /\ bVadEnabled = TRUE
  /\ bVadThreshold = 10
  /\ bSpeaking = FALSE
  /\ vadHangover = 0
  /\ wVadEnabled = TRUE
  /\ wVadThreshold = 10
  /\ speaking = FALSE
  /\ hangoverFrames = 0
  /\ port = <<>>
  /\ glast = NoFrame
  /\ blast = NoMain
  /\ gEv = "none"
  /\ bEv = "none"
  /\ lag = 0
  /\ quiet = 0
  /\ scen = 0
  /\ uiEnabled = TRUE
  /\ uiThreshold = 10
  /\ gset = [enabled |-> TRUE, threshold |-> 10]

NoPlay ==
  [kind |-> "none", wasBuffering |-> TRUE, out |-> <<>>, preRead |-> 0,
   preBuffered |-> 0, preUnderruns |-> 0, preStreak |-> TRUE]

\* new PlaybackProcessor(options) with this fill target
NewPlayback(target) ==
  /\ jitterBufferSamples = target
  /\ ringBuffer = [i \in 0..(SampleRate - 1) |-> 0]
  /\ writeIndex = 0
  /\ readIndex = 0
  /\ bufferedSamples = 0
  /\ buffering = TRUE
  /\ underruns = 0
  /\ nextSample = 1
  /\ plast = NoPlay
  /\ streak = TRUE

IdlePlay == NewPlayback(0)

IdlePcm ==
  /\ pcmRaw = <<>>
  /\ pcmWire = <<>>
  /\ pcmOut = <<>>
  /\ pcmStage = "raw"

\* a gate as its constructor leaves it
NewGate(enabled, threshold) ==
  [vadEnabled |-> enabled, vadThreshold |-> threshold, speaking |-> FALSE,
   hangoverFrames |-> 0]

NoPairFrame ==
  [seen |-> FALSE, rms |-> 0, wPass |-> FALSE, sPass |-> FALSE,
   wEv |-> "none", sEv |-> "none"]

\* a playout ring as PlaybackProcessor's constructor and
\* _setupScriptProcessorFallback leave it
NewRing ==
  [ringBuffer |-> [i \in 0..(SampleRate - 1) |-> 0], writeIndex |-> 0,
   readIndex |-> 0, bufferedSamples |-> 0, buffering |-> TRUE, underruns |-> 0]

NoPairPlay == [kind |-> "none", wOut |-> <<>>, sOut |-> <<>>]

IdlePair ==
  /\ gatePair = [worklet |-> NewGate(TRUE, 10), script |-> NewGate(TRUE, 10)]
  /\ gatePairLast = NoPairFrame
  /\ playPair = [target |-> 0, worklet |-> NewRing, script |-> NewRing]
  /\ playPairLast = NoPairPlay
  /\ pairNext = 1

NoCapture ==
  [kind |-> "none", chunk |-> <<>>, handed |-> <<>>, passes |-> <<>>,
   posted |-> <<>>, pending |-> <<>>]

IdleCap ==
  /\ capPath = "worklet"
  /\ capBuffer = [i \in 0..(SamplesPerFrame - 1) |-> 0]
  /\ capIndex = 0
  /\ capGate = NewGate(TRUE, 2)
  /\ capLast = NoCapture

IdleSteady ==
  /\ tToFrame = 0
  /\ tToTick = 0

\* new AudioBroadcaster(node, opts) or new AudioListener(node, opts): nothing
\* is held; pc is where the start() call in flight, if any, awaits
NewPipe ==
  [started |-> FALSE, pc |-> "idle", stream |-> FALSE, ctx |-> FALSE,
   graph |-> FALSE, codec |-> "null", worklet |-> FALSE, script |-> FALSE,
   useSP |-> FALSE, handlers |-> 0, warnedOpus |-> FALSE, frameCount |-> 0,
   sampleCount |-> 0]

\* live microphone streams, open audio contexts, open codec sessions,
\* connected capture or playout graphs, and the start() calls so far
NoResources == [mic |-> 0, ctx |-> 0, codec |-> 0, graphs |-> 0, starts |-> 0]

\* submitted and received: the samples handed to the compressed encoder and
\* the compressed frames the listener took to its decoder since the last
\* start()
NoStart ==
  [outcome |-> "none", stopInFlight |-> FALSE, unsupported |-> 0,
   submitted |-> 0, received |-> 0]

NoFrameOp ==
  [kind |-> "none", data |-> <<>>, handlers |-> 0, audio |-> 0,
   unsupported |-> 0, sent |-> 0, played |-> 0, encoded |-> 0,
   hadDecoder |-> FALSE, warned |-> FALSE, ts |-> -1, before |-> 0]

IdleSession ==
  /\ role = "listener"
  /\ env = [worklet |-> TRUE, codec |-> "opus"]
  /\ pipe = NewPipe
  /\ held = NoResources
  /\ shist = NoStart
  /\ slast = NoFrameOp

IdleRelay ==
  /\ started = FALSE
  /\ relay = TRUE
  /\ listeners = [e \in EventNames |-> 0]
  /\ upstream = NoPeer
  /\ downstream = <<>>
  /\ peers = [p \in PeerIds |-> NewPeer]
  /\ chans = [c \in ChanIds |-> NoChannel]
  /\ nextChan = 1
  /\ lastOp = NoOp

Init == InitRelay /\ IdleTree /\ IdleGate /\ IdlePlay /\ IdleSteady /\ IdleSession /\ IdlePcm /\ IdlePair /\ IdleCap

NextRelay ==
  \/ ~started /\ Start
  \/ EvUpstreamCreated
  \/ peers[UpId].cached = NoChan /\ EvDatachannel(UpId, "_audio")
  \/ EvConnect
  \/ \E p \in DownIds : (p = "d2" => peers["d1"].life # "absent") /\ EvPeerCreated(p)
  \/ \E p \in DownIds : EvPeerConnect(p)
  \/ \E p \in DownIds : EvPeerDisconnect(p)
  \/ \E c \in ChanIds : ChanOpen(c)
  \/ \E c \in ChanIds : ChanClosing(c)
  \/ \E c \in ChanIds : ChanClose(c)
  \/ \E c \in ChanIds, g \in GaugeVals : GaugeSet(c, g)
  \/ \E c \in ChanIds, f \in Frames, thr \in SUBSET DownIds :
       (\A p \in thr : Sendable(p)) /\ RecvFrame(c, f, thr)
  \/ \E f \in Frames, thr \in SUBSET DownIds :
       (\A p \in thr : Sendable(p)) /\ DoBroadcast(f, thr)

Next == NextRelay /\ UNCHANGED <<treeVars, gateVars, playVars, steadyVars, sessVars, pcmVars, pairVars, capVars>>

Spec == Init /\ [][Next]_vars


(***************************************************************************)
(* Claims about the fan-out (Spec)                                         *)
(***************************************************************************)
\* the last operation directed its frame at peer p's link
Directed(p) ==
  /\ InSeq(p, downstream)
  /\ peers[p].audio # NoChan
  /\ \/ lastOp.kind = "broadcast"
     \/ lastOp.kind = "recv" /\ relay

LinkState(p) == chans[peers[p].audio].readyState
Gauge(p) == chans[peers[p].audio].bufferedAmount

\* C1 as stated: whenever a frame is directed at a downstream link whose
\* bufferedAmount exceeds 200, send() is not called on it and exactly one
\* 'drop' is emitted for it; no 'drop' for a link the frame was sent to.
C1_DropOncePerCongestedLink ==
  \A p \in PeerIds :
    /\ (Directed(p) /\ Gauge(p) > 200) =>
          lastOp.res[p].sends = 0 /\ lastOp.res[p].drops = 1
    /\ lastOp.res[p].sends > 0 => lastOp.res[p].drops = 0

\* C1 amended: the same for a downstream link whose channel is open; a link
\* that is not open is skipped without a 'drop', whatever its gauge.
C1_DropOncePerCongestedOpenLink ==
  \A p \in PeerIds :
    /\ (Directed(p) /\ LinkState(p) = "open" /\ Gauge(p) > 200) =>
          lastOp.res[p].sends = 0 /\ lastOp.res[p].drops = 1
    /\ (Directed(p) /\ LinkState(p) # "open") =>
          lastOp.res[p].sends = 0 /\ lastOp.res[p].drops = 0
    /\ lastOp.res[p].sends > 0 => lastOp.res[p].drops = 0

C1_Witness ==
  \E p \in DownIds :
    /\ Directed(p) /\ LinkState(p) = "open" /\ Gauge(p) > 200
    /\ lastOp.res[p].drops = 1

\* C2: a downstream link that is open with bufferedAmount <= 200 has send()
\* called exactly once with the frame, whatever the state of its siblings
\* (congested, not open, without a channel, or failing on send).
C2_SiblingIndependence ==
  \A p \in PeerIds :
    (Directed(p) /\ LinkState(p) = "open" /\ Gauge(p) <= 200) =>
       /\ lastOp.res[p].sends = 1
       /\ lastOp.res[p].drops = 0
       /\ p \notin lastOp.thr => lastOp.res[p].got = <<lastOp.data>>

C2_Witness ==
  /\ Directed("d2") /\ LinkState("d2") = "open" /\ Gauge("d2") <= 200
  /\ lastOp.res["d2"].got = <<lastOp.data>>
  /\ InSeq("d1", downstream)
  /\ "d1" \in lastOp.thr

\* C4: a frame received on a wired link is emitted to the local consumer
\* exactly once; with relay enabled every peer of node.downstream is tried
\* once and send() is called only on open channels; with relay disabled no
\* peer is tried.
C4_EmitOnceRelayToAll ==
  lastOp.kind = "recv" =>
    /\ lastOp.emits = 1
    /\ lastOp.emitted = lastOp.data
    /\ \A p \in PeerIds :
         /\ lastOp.res[p].attempts = IF relay /\ InSeq(p, downstream) THEN 1 ELSE 0
         /\ lastOp.res[p].sends > 0 =>
              /\ relay
              /\ peers[p].audio # NoChan
              /\ LinkState(p) = "open"
         /\ ~relay => lastOp.res[p].sends = 0 /\ lastOp.res[p].drops = 0

C4_Witness ==
  /\ lastOp.kind = "recv"
  /\ relay
  /\ Len(downstream) = 2
  /\ lastOp.res["d1"].sends = 1
  /\ lastOp.res["d2"].attempts = 1
  /\ lastOp.res["d2"].sends = 0

(***************************************************************************)
(* SpecWire: the manager's lifecycle, with one downstream peer             *)
(***************************************************************************)
WirePeers == {UpId, "d1"}

StepWire ==
  \/ Start
  \/ Stop
  \/ EvUpstreamCreated
  \/ EvConnect
  \/ EvPeerCreated("d1")
  \/ EvPeerConnect("d1")
  \/ \E p \in WirePeers, l \in {"_audio", "other"} : EvDatachannel(p, l)
  \/ \E p \in WirePeers : EvPeerDisconnect(p)
  \/ \E c \in ChanIds : ChanOpen(c)
  \/ \E c \in ChanIds : ChanClose(c)
  \/ \E c \in ChanIds : RecvFrame(c, <<1, 9>>, {})

NextWire == StepWire /\ UNCHANGED <<treeVars, gateVars, playVars, steadyVars, sessVars, pcmVars, pairVars, capVars>>

InitWire == InitRelay /\ relay = TRUE /\ IdleTree /\ IdleGate /\ IdlePlay /\ IdleSteady /\ IdleSession /\ IdlePcm /\ IdlePair /\ IdleCap

SpecWire == InitWire /\ [][NextWire]_vars

(***************************************************************************)
(* Claims about the wiring (SpecWire)                                      *)
(***************************************************************************)
\* C3: an upstream '_audio' channel that arrived open while the manager was
\* not subscribed (kept only in peer._channels) is wired by start(): once
\* the manager is started and the upstream peer connected, a frame received
\* on that channel is emitted to the local consumer.
C3_LateUpstreamIsWired ==
  ( /\ lastOp.kind \in {"recv", "unheard"}
    /\ started
    /\ upstream # NoPeer
    /\ DidConnect(upstream, peers)
    /\ lastOp.chan = peers[upstream].cached
    /\ chans[lastOp.chan].missed )
  => (lastOp.kind = "recv" /\ lastOp.emits = 1)

(***************************************************************************)
(* SpecTree: a chain of nodes.  Node 0 is the source (AudioBroadcaster);   *)
(* node i > 0 runs a relaying AudioChannelManager whose upstream link is   *)
(* link i and whose only downstream peer, if i < Depth, is reached by link *)
(* i + 1.  The transport may lose a frame in flight.                       *)
(***************************************************************************)
Payloads == {<<7>>, <<1, 0>>}

\* the downstream peers of node i and the objects _sendToPeer reads there
TreeDown(i) == IF i < Depth THEN <<"d1">> ELSE <<>>
TreePeers == [p \in PeerIds |-> [NewPeer EXCEPT !.life = "connected", !.audio = 1]]
TreeChans(i) == [c \in ChanIds |-> IF i < Depth THEN tlinks[i + 1] ELSE NoChannel]

InitTree == IdleTree /\ IdleRelay /\ IdleGate /\ IdlePlay /\ IdleSteady /\ IdleSession /\ IdlePcm /\ IdlePair /\ IdleCap

\* link i's sending channel opens, starts to close, or its queue changes
TreeLinkOpen(i) ==
  /\ tlinks[i].readyState = "connecting"
  /\ tlinks' = [tlinks EXCEPT ![i].readyState = "open"]
  /\ UNCHANGED <<tsrc, tflight, theard>>

TreeLinkClosing(i) ==
  /\ tlinks[i].readyState = "open"
  /\ tlinks' = [tlinks EXCEPT ![i].readyState = "closing"]
  /\ UNCHANGED <<tsrc, tflight, theard>>

TreeGaugeSet(i, g) ==
  /\ tlinks[i].readyState = "open"
  /\ tlinks[i].bufferedAmount # g
  /\ tlinks' = [tlinks EXCEPT ![i].bufferedAmount = g]
  /\ UNCHANGED <<tsrc, tflight, theard>>

\* the source encodes a frame: _broadcastFrame, then broadcast()
TreeSource(buffer, isOpus) ==
  /\ Len(tsrc) < MaxSrcFrames
  /\ tsrc' = Append(tsrc, [buffer |-> buffer, isOpus |-> isOpus])
  /\ LET frame == BroadcastFrame(buffer, isOpus)
         res == Broadcast(TreeDown(0), frame, {}, TreePeers, TreeChans(0))
     IN tflight' = [tflight EXCEPT ![1] =
                      IF res["d1"].got = <<>> THEN @
                      ELSE Append(@, [k |-> Len(tsrc) + 1, bytes |-> res["d1"].got[1]])]
  /\ UNCHANGED <<tlinks, theard>>

\* node i receives the oldest frame in flight on its upstream link:
\* _onAudioData
TreeRecv(i) ==
  /\ tflight[i] # <<>>
  /\ LET item == Head(tflight[i])
         o == OnAudioData(TRUE, TreeDown(i), item.bytes, {}, TreePeers, TreeChans(i))
     IN /\ theard' = [theard EXCEPT ![i] = <<[k |-> item.k, bytes |-> o.emitted]>>]
        /\ tflight' = [j \in 1..Depth |->
                         IF j = i THEN Tail(tflight[i])
                         ELSE IF j = i + 1 /\ o.res["d1"].got # <<>>
                              THEN Append(tflight[j],
                                          [k |-> item.k, bytes |-> o.res["d1"].got[1]])
                         ELSE tflight[j]]
  /\ UNCHANGED <<tsrc, tlinks>>

\* the unreliable transport loses the oldest frame in flight on link i
TreeLose(i) ==
  /\ tflight[i] # <<>>
  /\ tflight' = [tflight EXCEPT ![i] = Tail(@)]
  /\ UNCHANGED <<tsrc, tlinks, theard>>

StepTree ==
  \/ \E i \in 1..Depth : TreeLinkOpen(i)
  \/ \E i \in 1..Depth : TreeLinkClosing(i)
  \/ \E i \in 1..Depth, g \in {0, AUDIO_BACKPRESSURE_THRESHOLD + 1} : TreeGaugeSet(i, g)
  \/ \E b \in Payloads, o \in BOOLEAN : TreeSource(b, o)
  \/ \E i \in 1..Depth : TreeRecv(i)
  \/ \E i \in 1..Depth : TreeLose(i)

NextTree == StepTree /\ UNCHANGED <<relayVars, gateVars, playVars, steadyVars, sessVars, pcmVars, pairVars, capVars>>

SpecTree == InitTree /\ [][NextTree]_vars

\* the frame the source framed as its k-th
Framed(k) == <<IF tsrc[k].isOpus THEN 1 ELSE 0>> \o tsrc[k].buffer

\* C5: every frame in flight on any link and every frame any node emits to
\* its consumer is, byte for byte, the frame the source framed: the tag byte
\* (1 for Opus, 0 for PCM) followed by the payload, unchanged at every hop.
C5_FramesUnchangedAcrossHops ==
  \A i \in 1..Depth :
    /\ \A n \in 1..Len(tflight[i]) :
         /\ tflight[i][n].bytes = Framed(tflight[i][n].k)
         /\ Head(tflight[i][n].bytes) = (IF tsrc[tflight[i][n].k].isOpus THEN 1 ELSE 0)
         /\ Tail(tflight[i][n].bytes) = tsrc[tflight[i][n].k].buffer
    /\ \A n \in 1..Len(theard[i]) :
         /\ theard[i][n].bytes = Framed(theard[i][n].k)

C5_Witness ==
  /\ theard[Depth] # <<>>
  /\ theard[Depth][1].bytes = <<1, 1, 0>>
  /\ tsrc[theard[Depth][1].k].isOpus


(***************************************************************************)
(* SpecGate: one capture session of an AudioBroadcaster.  The session runs *)
(* either the capture worklet, whose messages the main thread handles      *)
(* later, or the ScriptProcessor fallback, which runs on the main thread.  *)
(***************************************************************************)
RmsVals == {0, 10, 20}

ThresholdVals == {10, 20}

\* the RMS sequence 0.02 x3, 0.0 x20, in thousandths
ScenarioRms == [i \in 1..23 |-> IF i <= 3 THEN 20 ELSE 0]

QuietCap == HANGOVER_FRAMES + 1

\* AudioBroadcaster(node, opts) followed by start(): the worklet takes its
\* vadEnabled and vadThreshold from processorOptions
InitGate ==
  /\ IdleRelay
  /\ IdleTree
  /\ IdlePlay
  /\ IdleSteady
  /\ IdlePcm
  /\ IdlePair
  /\ IdleCap
  /\ IdleSession
  /\ gpath \in {"worklet", "script"}
  /\ bVadEnabled \in BOOLEAN
  /\ bVadThreshold \in ThresholdVals
  /\ bSpeaking = FALSE
  /\ vadHangover = 0
  /\ wVadEnabled = bVadEnabled
  /\ wVadThreshold = bVadThreshold
  /\ speaking = FALSE
  /\ hangoverFrames = 0
  /\ port = <<>>
  /\ glast = NoFrame
  /\ blast = NoMain
  /\ gEv = "none"
  /\ bEv = "none"
  /\ lag = 0
  /\ quiet = 0
  /\ scen = 0
  /\ uiEnabled = bVadEnabled
  /\ uiThreshold = bVadThreshold
  /\ gset = [enabled |-> uiEnabled, threshold |-> uiThreshold]

NextScen(rms) ==
  IF scen >= 0 /\ scen < Len(ScenarioRms) /\ rms = ScenarioRms[scen + 1]
  THEN scen + 1 ELSE -1

NextQuiet(rms, threshold) ==
  IF rms >= threshold THEN 0
  ELSE IF quiet < QuietCap THEN quiet + 1 ELSE quiet

BroadcasterEvent(ev) ==
  IF ev = "started" THEN "speaking" ELSE IF ev = "stopped" THEN "silent" ELSE "none"

\* CaptureProcessor.process completes a frame with this RMS
WorkletFrame(rms) ==
  LET r == WorkletProcessFrame(rms, [vadEnabled |-> wVadEnabled,
                                     vadThreshold |-> wVadThreshold,
                                     speaking |-> speaking,
                                     hangoverFrames |-> hangoverFrames])
      vadMsgs == IF r.ev = "none" THEN <<>>
                 ELSE <<[type |-> "vad", speaking |-> (r.ev = "started")]>>
      frameMsgs == IF r.pass THEN <<[type |-> "frame", speaking |-> FALSE]>>
                   ELSE <<>>
  IN /\ gpath = "worklet"
     /\ Len(port) + 2 <= MaxPort
     /\ speaking' = r.speaking
     /\ hangoverFrames' = r.hangoverFrames
     /\ port' = port \o vadMsgs \o frameMsgs
     /\ glast' = [seen |-> TRUE, rms |-> rms, was |-> speaking,
                  now |-> r.speaking, ev |-> r.ev, prevEv |-> gEv,
                  pass |-> r.pass, quietBefore |-> quiet]
     /\ gEv' = IF r.ev = "none" THEN gEv ELSE r.ev
     /\ lag' = lag + Len(vadMsgs)
     /\ quiet' = NextQuiet(rms, wVadThreshold)
     /\ scen' = NextScen(rms)
     /\ gset' = [enabled |-> uiEnabled, threshold |-> uiThreshold]
     /\ UNCHANGED <<gpath, bVadEnabled, bVadThreshold, bSpeaking, vadHangover,
                    wVadEnabled, wVadThreshold, blast, bEv, uiEnabled,
                    uiThreshold>>

\* _workletNode.port.onmessage handles the oldest message of the worklet
OnPortMessage ==
  /\ gpath = "worklet"
  /\ port # <<>>
  /\ LET msg == Head(port)
         ev == IF msg.type = "vad" THEN OnVadMessage(msg.speaking, bSpeaking)
               ELSE "none"
     IN /\ port' = Tail(port)
        /\ bSpeaking' = IF msg.type = "vad" THEN msg.speaking ELSE bSpeaking
        /\ blast' = [kind |-> msg.type, ev |-> ev, prevEv |-> bEv]
        /\ bEv' = IF ev = "none" THEN bEv ELSE ev
        /\ lag' = IF ev = "none" THEN lag ELSE lag - 1
  /\ UNCHANGED <<gpath, bVadEnabled, bVadThreshold, vadHangover, wVadEnabled,
                 wVadThreshold, speaking, hangoverFrames, glast, gEv, quiet,
                 scen, uiEnabled, uiThreshold, gset>>

\* onaudioprocess of the ScriptProcessor fallback completes a frame
ScriptFrame(rms) ==
  LET r == ScriptProcessFrame(rms, [vadEnabled |-> bVadEnabled,
                                    vadThreshold |-> bVadThreshold,
                                    speaking |-> bSpeaking,
                                    hangoverFrames |-> vadHangover])
  IN /\ gpath = "script"
     /\ bSpeaking' = r.speaking
     /\ vadHangover' = r.hangoverFrames
     /\ glast' = [seen |-> TRUE, rms |-> rms, was |-> bSpeaking,
                  now |-> r.speaking, ev |-> r.ev, prevEv |-> gEv,
                  pass |-> r.pass, quietBefore |-> quiet]
     /\ gEv' = IF r.ev = "none" THEN gEv ELSE r.ev
     /\ blast' = [kind |-> IF r.pass THEN "frame"
                           ELSE IF r.ev = "none" THEN "none" ELSE "vad",
                  ev |-> BroadcasterEvent(r.ev), prevEv |-> bEv]
     /\ bEv' = IF r.ev = "none" THEN bEv ELSE BroadcasterEvent(r.ev)
     /\ quiet' = NextQuiet(rms, bVadThreshold)
     /\ scen' = NextScen(rms)
     /\ gset' = [enabled |-> uiEnabled, threshold |-> uiThreshold]
     /\ UNCHANGED <<gpath, bVadEnabled, bVadThreshold, wVadEnabled,
                    wVadThreshold, speaking, hangoverFrames, port, lag,
                    uiEnabled, uiThreshold>>

\* vadEnabledEl.onchange: with a worklet node the page posts a 'config'
\* message to its port, where CaptureProcessor installs no handler, so the
\* message is discarded; without one the page does nothing
VadEnabledChange ==
  /\ uiEnabled' = ~uiEnabled
  /\ UNCHANGED <<gpath, bVadEnabled, bVadThreshold, bSpeaking, vadHangover,
                 wVadEnabled, wVadThreshold, speaking, hangoverFrames, port,
                 glast, blast, gEv, bEv, lag, quiet, scen, uiThreshold, gset>>

\* vadThresholdEl.oninput: the same for the threshold
VadThresholdInput(val) ==
  /\ val # uiThreshold
  /\ uiThreshold' = val
  /\ UNCHANGED <<gpath, bVadEnabled, bVadThreshold, bSpeaking, vadHangover,
                 wVadEnabled, wVadThreshold, speaking, hangoverFrames, port,
                 glast, blast, gEv, bEv, lag, quiet, scen, uiEnabled, gset>>

StepGate ==
  \/ \E rms \in RmsVals : WorkletFrame(rms)
  \/ OnPortMessage
  \/ \E rms \in RmsVals : ScriptFrame(rms)
  \/ VadEnabledChange
  \/ \E val \in ThresholdVals : VadThresholdInput(val)

NextGate == StepGate /\ UNCHANGED <<relayVars, treeVars, playVars, steadyVars, sessVars, pcmVars, pairVars, capVars>>

SpecGate == InitGate /\ [][NextGate]_vars

\* the gate's state after the last frame, whichever path runs
GateSpeaking == IF gpath = "worklet" THEN speaking ELSE bSpeaking

GateHangover == IF gpath = "worklet" THEN hangoverFrames ELSE vadHangover

GateEnabled == IF gpath = "worklet" THEN wVadEnabled ELSE bVadEnabled

GateThreshold == IF gpath = "worklet" THEN wVadThreshold ELSE bVadThreshold

GateHangoverFrames ==
  IF gpath = "worklet" THEN WORKLET_HANGOVER_FRAMES ELSE HANGOVER_FRAMES

\* C6: the speaking flag goes from false to true only on a frame whose RMS is
\* at least the threshold, and from true to false only on a sub-threshold
\* frame that at least the hangover count of consecutive sub-threshold
\* frames precede since the last frame at or above the threshold.
C6_SpeakingFlagTransitions ==
  glast.seen =>
    /\ (~glast.was /\ glast.now) => glast.rms >= GateThreshold
    /\ (glast.was /\ ~glast.now) =>
         /\ glast.rms < GateThreshold
         /\ glast.quietBefore >= GateHangoverFrames

C6_Witness ==
  /\ glast.seen
  /\ glast.was
  /\ ~glast.now
  /\ glast.quietBefore = GateHangoverFrames
  /\ gEv = "stopped"

\* C7: after the state update of a frame, the frame is passed on exactly
\* when gating is disabled, or speaking is true, or the remaining hangover
\* is positive; on the worklet path a frame reaches the main thread only as
\* a message of the gate.
C7_PassIffOpen ==
  /\ glast.seen =>
       (glast.pass <=> (~GateEnabled \/ GateSpeaking \/ GateHangover > 0))
  /\ (glast.seen /\ gpath = "script") => (glast.pass <=> blast.kind = "frame")
  /\ (blast.kind = "frame" /\ gpath = "worklet") => glast.seen

C7_Witness ==
  /\ glast.seen
  /\ GateEnabled
  /\ ~GateSpeaking
  /\ GateHangover = 0
  /\ ~glast.pass
  /\ glast.was

\* C8: with gating enabled and threshold 0.01, on the worklet path, of the
\* frames 0.02 x3 then 0.0 x17 the first 18 pass and frames 19 and 20 are
\* suppressed.
C8_ScenarioPassesThroughFrame18 ==
  (gpath = "worklet" /\ wVadEnabled /\ wVadThreshold = 10 /\ scen \in 1..20) =>
    (glast.pass <=> scen <= 18)

\* the same frames on the ScriptProcessor path
ScriptScenarioPasses18 ==
  (gpath = "script" /\ bVadEnabled /\ bVadThreshold = 10 /\ scen \in 1..20) =>
    (glast.pass <=> scen <= 18)

\* what the worklet does with the same frames
WorkletScenarioPassesHangover ==
  (gpath = "worklet" /\ wVadEnabled /\ wVadThreshold = 10 /\ scen \in 1..20) =>
    (glast.pass <=> scen <= 3 + WORKLET_HANGOVER_FRAMES)

PendingVad == Len(SelectSeq(port, LAMBDA m : m.type = "vad"))

JitterBufferMs == {250, 500}

SampleVals == 1..3

PlayState ==
  [ringBuffer |-> ringBuffer, writeIndex |-> writeIndex,
   readIndex |-> readIndex, bufferedSamples |-> bufferedSamples,
   buffering |-> buffering, underruns |-> underruns]

InitPlay ==
  /\ IdleRelay
  /\ IdleTree
  /\ IdleGate
  /\ IdleSteady
  /\ IdlePcm
  /\ IdlePair
  /\ IdleCap
  /\ IdleSession
  /\ \E ms \in JitterBufferMs : NewPlayback((SampleRate * ms) \div 1000)

RECURSIVE SamplesFrom(_, _)
SamplesFrom(v, n) ==
  IF n = 0 THEN <<>>
  ELSE <<v>> \o SamplesFrom((v % Cardinality(SampleVals)) + 1, n - 1)

SetPlay(st) ==
  /\ ringBuffer' = st.ringBuffer
  /\ writeIndex' = st.writeIndex
  /\ readIndex' = st.readIndex
  /\ bufferedSamples' = st.bufferedSamples
  /\ buffering' = st.buffering
  /\ underruns' = st.underruns

\* the samples of a channel that the underrun branch wrote
Silent(out) == Cardinality({i \in 1..Len(out) : out[i] = 0})

\* _onMessage with a 'samples' message of n samples
PlayEnqueue(n) ==
  LET samples == SamplesFrom(nextSample, n)
      st == EnqueueSamples(PlayState, samples, jitterBufferSamples)
  IN /\ SetPlay(st)
     /\ nextSample' = ((nextSample + n - 1) % Cardinality(SampleVals)) + 1
     /\ plast' = [kind |-> "enqueue", wasBuffering |-> buffering, out |-> <<>>,
                  preRead |-> readIndex, preBuffered |-> bufferedSamples,
                  preUnderruns |-> underruns, preStreak |-> streak]
     /\ UNCHANGED <<jitterBufferSamples, streak>>

\* the audio thread renders: process(inputs, outputs) with a channel of n
TickOf(n) ==
  LET r == PlaybackProcess(PlayState, n)
  IN /\ SetPlay(r.st)
     /\ plast' = [kind |-> "tick", wasBuffering |-> buffering, out |-> r.out,
                  preRead |-> readIndex, preBuffered |-> bufferedSamples,
                  preUnderruns |-> underruns, preStreak |-> streak]
     /\ streak' = IF r.st.buffering /\ ~buffering THEN TRUE
                  ELSE IF underruns > 0 /\ Silent(r.out) < Len(r.out) THEN FALSE
                  ELSE streak
     /\ UNCHANGED <<jitterBufferSamples, nextSample>>

\* process(inputs, outputs) with a channel of Quantum samples
PlayTick == TickOf(Quantum)

StepPlay ==
  \/ \E n \in 0..MaxEnq : PlayEnqueue(n)
  \/ PlayTick

NextPlay == StepPlay /\ UNCHANGED <<relayVars, treeVars, gateVars, steadyVars, sessVars, pcmVars, pairVars, capVars>>

SpecPlay == InitPlay /\ [][NextPlay]_vars

\* C10: the playout starts buffering; a process call made while buffering
\* writes only zeros and leaves readIndex and bufferedSamples as they were;
\* buffering turns false only in an enqueue that leaves bufferedSamples at
\* or above the fill target.
C10_FillBeforeDrain ==
  /\ plast.kind = "none" => buffering
  /\ (plast.kind = "tick" /\ plast.wasBuffering) =>
       /\ \A i \in 1..Len(plast.out) : plast.out[i] = 0
       /\ Len(plast.out) = Quantum
       /\ readIndex = plast.preRead
       /\ bufferedSamples = plast.preBuffered
       /\ buffering
  /\ (plast.wasBuffering /\ ~buffering) =>
       /\ plast.kind = "enqueue"
       /\ bufferedSamples >= jitterBufferSamples

C10_Witness ==
  /\ plast.kind = "tick"
  /\ plast.wasBuffering
  /\ bufferedSamples > 0
  /\ bufferedSamples < jitterBufferSamples
  /\ ringBuffer[readIndex] # 0
  /\ nextSample # 1


SteadyFrame == (SampleRate * 250) \div 1000

InitSteady ==
  /\ IdlePcm
  /\ IdlePair
  /\ IdleCap
  /\ IdleRelay
  /\ IdleTree
  /\ IdleGate
  /\ IdleSession
  /\ NewPlayback((SampleRate * 500) \div 1000)
  /\ tToFrame \in 0..SteadyFrame
  /\ tToTick \in 0..SteadyQuantum

\* a decoded frame reaches the worklet: _onMessage
SteadyArrive ==
  /\ tToFrame = 0
  /\ PlayEnqueue(SteadyFrame)
  /\ tToFrame' = SteadyFrame
  /\ UNCHANGED tToTick

SteadyTick ==
  /\ tToTick = 0
  /\ TickOf(SteadyQuantum)
  /\ tToTick' = SteadyQuantum
  /\ UNCHANGED tToFrame

\* one sample time passes
SteadyPass ==
  /\ tToFrame > 0
  /\ tToTick > 0
  /\ tToFrame' = tToFrame - 1
  /\ tToTick' = tToTick - 1
  /\ UNCHANGED playVars

StepSteady ==
  \/ SteadyArrive
  \/ SteadyTick
  \/ SteadyPass

NextSteady == StepSteady /\ UNCHANGED <<relayVars, treeVars, gateVars, sessVars, pcmVars, pairVars, capVars>>

SpecSteady == InitSteady /\ [][NextSteady]_vars

\* C12: under steady arrival, once the first fill to two frames has ended,
\* no process call takes the underrun branch: every sample of every call
\* that starts draining is read from the ring, the underrun counter stays
\* zero and buffering never returns.
C12_SteadyNeverUnderruns ==
  /\ underruns = 0
  /\ (plast.kind = "tick" /\ ~plast.wasBuffering) =>
       /\ Silent(plast.out) = 0
       /\ plast.preBuffered >= SteadyQuantum
       /\ ~buffering
  /\ (plast.kind = "enqueue" /\ ~plast.wasBuffering) => ~buffering

C12_Witness ==
  /\ plast.kind = "tick"
  /\ ~plast.wasBuffering
  /\ Silent(plast.out) = 0
  /\ plast.preBuffered = SteadyFrame
  /\ tToFrame = 0


(***************************************************************************)
(* SpecSession: one AudioBroadcaster or AudioListener with its channel     *)
(* manager.  start() is asynchronous: each await is a position (pipe.pc)   *)
(* from which a later step continues, whatever stop() did in between.  One *)
(* start() call is in flight at a time.                                    *)
(***************************************************************************)
\* wire frames: one PCM sample, a compressed packet, an unknown tag, and a
\* lone tag byte
SessFrames == {<<0, 7, 0>>, <<1, 9>>, <<2, 5, 0>>, <<1>>}

Codecs(r) == IF r = "listener" THEN {"opus", "wasm", "pcm"} ELSE {"opus", "pcm"}

InitSession ==
  /\ IdleTree
  /\ IdleGate
  /\ IdlePlay
  /\ IdleSteady
  /\ IdlePcm
  /\ IdlePair
  /\ IdleCap
  /\ role \in {"broadcaster", "listener"}
  /\ InitRelay
  /\ relay = (role = "listener")
  /\ env \in {e \in [worklet : BOOLEAN, codec : {"opus", "wasm", "pcm"}] :
                e.codec \in Codecs(role)}
  /\ pipe = NewPipe
  /\ held = NoResources
  /\ shist = NoStart
  /\ slast = NoFrameOp

\* a step of start() ends: it awaits again, resolves or rejects
Settle(p, h, rejected, sh) ==
  /\ pipe' = IF rejected THEN [p EXCEPT !.pc = "idle"] ELSE p
  /\ held' = h
  /\ shist' = [sh EXCEPT !.outcome = IF rejected THEN "rejected"
                                     ELSE IF p.pc = "idle" THEN "resolved"
                                     ELSE @]
  /\ slast' = NoFrameOp
  /\ UNCHANGED <<role, env>>

\* AudioListener.start() from the test of audioContext.audioWorklet to the
\* next await: reading a property of the null context throws
ListenerSetup(p, h, sh) ==
  IF ~p.ctx THEN Settle(p, h, TRUE, sh)
  ELSE IF env.worklet THEN Settle([p EXCEPT !.pc = "addModule"], h, FALSE, sh)
  ELSE Settle([p EXCEPT !.useSP = TRUE, !.script = TRUE, !.graph = TRUE,
                        !.pc = "createCodec"],
              [h EXCEPT !.graphs = @ + 1], FALSE, sh)

\* start(): returns at once when started; else sets the flag, starts the
\* manager and runs to the first await.  The broadcaster throws when there
\* is no navigator.mediaDevices; the listener makes its audio context and
\* awaits resume() when the context is suspended.
SessStart ==
  /\ pipe.pc = "idle"
  /\ IF pipe.started THEN UNCHANGED <<relayVars, sessVars>>
     ELSE /\ held.starts < MaxStarts
          /\ Start
          /\ LET h1 == [held EXCEPT !.starts = @ + 1]
                 p1 == [pipe EXCEPT !.started = TRUE]
                 sh == [shist EXCEPT !.outcome = "none", !.stopInFlight = FALSE,
                                 !.submitted = 0, !.received = 0]
             IN IF role = "broadcaster"
                THEN \E mediaDevices \in BOOLEAN :
                       IF mediaDevices
                       THEN Settle([p1 EXCEPT !.pc = "getUserMedia"], h1, FALSE, sh)
                       ELSE Settle(p1, h1, TRUE, sh)
                ELSE \E suspended \in BOOLEAN :
                       LET p2 == [p1 EXCEPT !.ctx = TRUE, !.graph = FALSE]
                           h2 == [h1 EXCEPT !.ctx = @ + 1]
                       IN IF suspended
                          THEN Settle([p2 EXCEPT !.pc = "resume"], h2, FALSE, sh)
                          ELSE ListenerSetup(p2, h2, sh)

\* AudioBroadcaster.start(): getUserMedia settles; on success the stream is
\* kept, the audio context is created and _createEncoder is awaited
GetUserMediaDone(ok) ==
  /\ role = "broadcaster"
  /\ pipe.pc = "getUserMedia"
  /\ IF ~ok THEN Settle(pipe, held, TRUE, shist)
     ELSE Settle([pipe EXCEPT !.stream = TRUE, !.ctx = TRUE, !.graph = FALSE,
                              !.pc = "createCodec"],
                 [held EXCEPT !.mic = @ + 1, !.ctx = @ + 1], FALSE, shist)
  /\ UNCHANGED relayVars

\* AudioListener.start(): audioContext.resume() settles
ResumeDone(ok) ==
  /\ role = "listener"
  /\ pipe.pc = "resume"
  /\ IF ~ok THEN Settle(pipe, held, TRUE, shist)
     ELSE ListenerSetup(pipe, held, shist)
  /\ UNCHANGED relayVars

\* start(): audioWorklet.addModule settles; on success the worklet node is
\* made on this._audioContext, which throws when that is null, and connected
AddModuleDone(ok) ==
  /\ pipe.pc = "addModule"
  /\ IF ~ok \/ ~pipe.ctx THEN Settle(pipe, held, TRUE, shist)
     ELSE Settle([pipe EXCEPT !.worklet = TRUE, !.graph = TRUE,
                              !.pc = IF role = "listener" THEN "createCodec"
                                     ELSE "idle"],
                 [held EXCEPT !.graphs = @ + 1], FALSE, shist)
  /\ UNCHANGED relayVars

\* start(): _createEncoder or _createDecoder resolves (they catch their own
\* failures).  The listener then registers its 'audio' and 'drop' listeners
\* and is done; the broadcaster builds the graph on this._audioContext,
\* which throws when that is null, and goes on to the worklet or sets up
\* the ScriptProcessor
CreateCodecDone ==
  /\ pipe.pc = "createCodec"
  /\ LET p1 == [pipe EXCEPT !.codec = env.codec]
         h1 == [held EXCEPT !.codec = @ + 1]
     IN IF role = "listener"
        THEN Settle([p1 EXCEPT !.handlers = @ + 1, !.pc = "idle"], h1, FALSE, shist)
        ELSE IF ~p1.ctx THEN Settle(p1, h1, TRUE, shist)
        ELSE IF env.worklet
        THEN Settle([p1 EXCEPT !.pc = "addModule"], h1, FALSE, shist)
        ELSE Settle([p1 EXCEPT !.script = TRUE, !.graph = TRUE, !.pc = "idle"],
                    [h1 EXCEPT !.graphs = @ + 1], FALSE, shist)
  /\ UNCHANGED relayVars

Less(n, b) == IF b /\ n > 0 THEN n - 1 ELSE n

\* stop(): returns at once when not started; else clears the flag, stops
\* the manager, stops the stream's tracks, disconnects the script node,
\* closes the audio context and the codec, and drops its references.  The
\* listeners registered on the manager stay, and so does a start() call in
\* flight.
SessStop ==
  IF ~pipe.started THEN UNCHANGED <<relayVars, sessVars>>
  ELSE /\ Stop
       /\ pipe' = [pipe EXCEPT !.started = FALSE, !.stream = FALSE,
                               !.script = FALSE, !.ctx = FALSE, !.graph = FALSE,
                               !.codec = "null", !.worklet = FALSE,
                               !.useSP = FALSE]
       /\ held' = [held EXCEPT !.mic = Less(@, pipe.stream),
                               !.ctx = Less(@, pipe.ctx),
                               !.graphs = Less(@, pipe.ctx /\ pipe.graph),
                               !.codec = Less(@, pipe.codec # "null")]
       /\ shist' = [shist EXCEPT !.stopInFlight = (pipe.pc # "idle")]
       /\ slast' = NoFrameOp
       /\ UNCHANGED <<role, env>>

\* a message arrives on channel c of the listener's node: the manager's
\* _onAudioData emits 'audio' and relays, and every listener that start()
\* registered on the manager runs AudioListener._onAudioData
SessRecv(c, f) ==
  /\ role = "listener"
  /\ pipe.frameCount < MaxCounted
  /\ RecvFrame(c, f, {})
  /\ LET heard == chans[c].onmessage # NoPeer
         o == EmitAudio(pipe, f, IF heard THEN pipe.handlers ELSE 0, NoEffect)
         compressed == /\ heard /\ pipe.handlers > 0
                       /\ Len(f) >= 2 /\ Head(f) = 1
                       /\ pipe.codec \in {"opus", "wasm"}
     IN /\ pipe' = o.p
        /\ slast' = [kind |-> IF heard THEN "recv" ELSE "unheard", data |-> f,
                     handlers |-> pipe.handlers,
                     audio |-> o.eff.audio, unsupported |-> o.eff.unsupported,
                     sent |-> o.eff.sent, played |-> o.eff.played,
                     encoded |-> 0,
                     hadDecoder |-> pipe.codec \in {"opus", "wasm"},
                     warned |-> pipe.warnedOpus,
                     ts |-> IF compressed /\ pipe.codec = "opus"
                            THEN DecodeTimestamp(pipe) ELSE -1,
                     before |-> shist.received]
        /\ shist' = [shist EXCEPT !.unsupported = @ + o.eff.unsupported,
                                  !.received = IF compressed THEN @ + 1 ELSE @]
  /\ UNCHANGED <<role, env, held>>

\* a connected capture graph of the broadcaster delivers a frame: _onFrame,
\* then the encoder's output goes to _broadcastFrame and broadcast()
SessCapture(payload, len) ==
  /\ role = "broadcaster"
  /\ held.graphs > 0
  /\ pipe.sampleCount < MaxCounted
  /\ LET o == OnFrame(pipe, len)
         counted == o.encoded = 1 /\ pipe.codec = "opus"
     IN /\ pipe' = o.p
        /\ IF o.encoded = 0
           THEN /\ lastOp' = NoOp
                /\ UNCHANGED <<started, relay, listeners, upstream, downstream,
                               peers, chans, nextChan>>
           ELSE DoBroadcast(BroadcastFrame(payload, pipe.codec = "opus"), {})
        /\ slast' = [NoFrameOp EXCEPT !.kind = "capture", !.data = payload,
                                      !.encoded = o.encoded,
                                      !.ts = IF counted THEN EncodeTimestamp(pipe)
                                             ELSE -1,
                                      !.before = shist.submitted]
        /\ shist' = [shist EXCEPT !.submitted = IF counted THEN @ + len ELSE @]
  /\ UNCHANGED <<role, env, held>>

\* the topology layer and the channels act: the listener's node gets its
\* upstream peer, which offers its audio channel once; the broadcaster's
\* node gets one downstream peer
SessTopology ==
  /\ \/ role = "listener" /\ EvUpstreamCreated
     \/ role = "listener" /\ EvConnect
     \/ role = "listener" /\ peers[UpId].cached = NoChan /\ EvDatachannel(UpId, "_audio")
     \/ role = "broadcaster" /\ EvPeerCreated("d1")
     \/ role = "broadcaster" /\ EvPeerConnect("d1")
     \/ role = "broadcaster" /\ \E c \in ChanIds : ChanOpen(c)
  /\ slast' = NoFrameOp
  /\ UNCHANGED <<role, env, pipe, held, shist>>

StepSession ==
  \/ SessStart
  \/ \E ok \in BOOLEAN : GetUserMediaDone(ok)
  \/ \E ok \in BOOLEAN : ResumeDone(ok)
  \/ \E ok \in BOOLEAN : AddModuleDone(ok)
  \/ CreateCodecDone
  \/ SessStop
  \/ \E c \in ChanIds, f \in SessFrames : SessRecv(c, f)
  \/ \E b \in Payloads, len \in 1..MaxFrameLen : SessCapture(b, len)
  \/ SessTopology

NextSession == StepSession /\ UNCHANGED <<treeVars, gateVars, playVars, steadyVars, pcmVars, pairVars, capVars>>

SpecSession == InitSession /\ [][NextSession]_vars


\* C13: a compressed frame that reaches a listener holding no compressed
\* decoder is dropped: no 'audio' event, nothing handed to playout, and
\* 'unsupported' only if the object has not emitted it before; 'unsupported'
\* is emitted at most once in all; a PCM frame is converted and handed to
\* playout by every registered handler whatever decoder is held.
C13_UndecodableDroppedWarnedOnce ==
  /\ shist.unsupported <= 1
  /\ (slast.kind = "recv" /\ Len(slast.data) >= 2 /\ Head(slast.data) = 1
        /\ ~slast.hadDecoder) =>
       /\ slast.audio = 0
       /\ slast.sent = 0
       /\ slast.played = 0
       /\ slast.unsupported = IF slast.warned \/ slast.handlers = 0 THEN 0 ELSE 1
       /\ slast.handlers > 0 => pipe.warnedOpus
  /\ (slast.kind = "recv" /\ Len(slast.data) >= 2 /\ Head(slast.data) = 0) =>
       /\ slast.audio = slast.handlers
       /\ slast.sent = slast.handlers
       /\ slast.played = IF SendToWorklet(pipe) THEN slast.handlers ELSE 0
       /\ slast.unsupported = 0

\* a second compressed frame is dropped without a notification
C13_Witness ==
  /\ slast.kind = "recv"
  /\ Head(slast.data) = 1
  /\ Len(slast.data) >= 2
  /\ ~slast.hadDecoder
  /\ slast.handlers = 1
  /\ slast.warned
  /\ shist.unsupported = 1
  /\ pipe.started


\* C14: when a start() call has rejected because a setup step failed (no
\* stop() came in between), the pipeline is not started: the started flag is
\* false, the manager holds none of the handlers start() registers, and no
\* stream, audio context, codec session or graph is held.
C14_FailedStartLeavesNotStarted ==
  (shist.outcome = "rejected" /\ ~shist.stopInFlight /\ pipe.pc = "idle"
     /\ slast.kind = "none" /\ held.starts = 1) =>
    /\ ~pipe.started
    /\ \A e \in EventNames : listeners[e] = 0
    /\ pipe.handlers = 0
    /\ held.mic = 0
    /\ held.ctx = 0
    /\ held.codec = 0
    /\ held.graphs = 0


\* C18: a received frame whose tag byte is neither 0 nor 1 is dropped by the
\* node: no listener hands it to a decoder or to playout, and it is sent to
\* no downstream link.
C18_UnknownTagDropped ==
  (slast.kind = "recv" /\ Len(slast.data) >= 2 /\ Head(slast.data) \notin {0, 1}) =>
    /\ slast.sent = 0
    /\ slast.played = 0
    /\ \A p \in PeerIds : lastOp.res[p] = NoResult


\* C20: when stop() was called while the first start() was in flight and
\* that start() has since settled, the pipeline is stopped and holds
\* nothing: no stream, audio context, codec session, capture or playout
\* graph, no frame handler on the manager, and the frame operations that
\* follow encode, hand on and play nothing.
C20_StopDuringStartDiscards ==
  (shist.stopInFlight /\ pipe.pc = "idle" /\ held.starts = 1) =>
    /\ ~pipe.started
    /\ held.mic = 0
    /\ held.ctx = 0
    /\ held.codec = 0
    /\ held.graphs = 0
    /\ pipe.handlers = 0
    /\ slast.encoded = 0
    /\ slast.sent = 0
    /\ slast.played = 0


\* C19: a frame is gated with the threshold and the enabled flag as the
\* controls stand when it is processed: with the gate switched off it
\* passes, and with the gate on the speaking flag rises on a frame at or
\* above the threshold set and does not rise on a frame below it.
C19_LiveSettingsApply ==
  glast.seen =>
    /\ ~gset.enabled => glast.pass
    /\ (gset.enabled /\ glast.rms >= gset.threshold) => glast.now
    /\ (gset.enabled /\ glast.rms < gset.threshold /\ ~glast.was) => ~glast.now


\* C15: a start() call on a started manager changes nothing of the manager,
\* the peers or the channels: no listener is added and no channel is
\* created, replaced or wired again; no event has more than one listener of
\* the manager.
C15_StartIdempotent ==
  /\ [](\A e \in EventNames : listeners[e] <= 1)
  /\ [][lastOp'.kind = "restart" =>
          UNCHANGED <<started, relay, listeners, upstream, downstream, peers,
                      chans, nextChan>>]_vars

\* start() is called again on a manager with a wired downstream channel, a
\* wired upstream channel and a connected downstream peer
C15_Witness ==
  /\ lastOp.kind = "restart"
  /\ started
  /\ DidConnect("d1", peers)
  /\ peers["d1"].audio # NoChan
  /\ upstream # NoPeer
  /\ DidConnect(upstream, peers)
  /\ peers[upstream].audio # NoChan

\* C16: stop() on a stopped manager changes nothing; stop() leaves no
\* listener of the manager on the node and changes no peer and no channel;
\* while the manager is stopped, no step wires a channel: no channel gets a
\* handler, and a peer's channel reference changes only when a channel that
\* was created for the peer closes and its close handler clears the reference.
C16_StopUnregistersOnly ==
  /\ [](~started => \A e \in EventNames : listeners[e] = 0)
  /\ [][/\ lastOp'.kind \in {"stop", "restop"} =>
             /\ UNCHANGED <<relay, upstream, downstream, peers, chans, nextChan>>
             /\ ~started'
             /\ lastOp'.kind = "restop" => UNCHANGED <<started, listeners>>
        /\ (~started /\ ~started') =>
             /\ \A p \in PeerIds :
                  peers'[p].audio # peers[p].audio =>
                    /\ peers'[p].audio = NoChan
                    /\ \E c \in ChanIds : /\ chans[c].onclose = p
                                          /\ chans[c].readyState # "closed"
                                          /\ chans'[c].readyState = "closed"
             /\ \A c \in ChanIds :
                  /\ chans'[c].onmessage # NoPeer =>
                       chans'[c].onmessage = chans[c].onmessage
                  /\ chans'[c].onclose # NoPeer =>
                       chans'[c].onclose = chans[c].onclose
       ]_vars

\* the manager was started and wired d1's channel, was stopped, and the
\* upstream's audio channel arrived afterwards and was left unwired
C16_Witness ==
  /\ ~started
  /\ peers["d1"].audio # NoChan
  /\ chans[peers["d1"].audio].readyState = "open"
  /\ \E c \in ChanIds : /\ c > peers["d1"].audio
                        /\ chans[c].missed
                        /\ chans[c].onmessage = NoPeer
  /\ peers[UpId].audio = NoChan
  /\ peers[UpId].life = "connected"


\* C17: when send() throws for a downstream link, the exception stays inside
\* _sendToPeer: send() was called once on that link and not again, no
\* 'drop' is emitted for it, every peer of node.downstream is still tried
\* for the frame, and the frame operation changes no peer and no channel,
\* so that the next frame is relayed over the same links.
C17_SendFailureSwallowed ==
  /\ [](\A p \in lastOp.thr :
          /\ lastOp.res[p].sends = 1
          /\ lastOp.res[p].drops = 0
          /\ lastOp.res[p].got = <<>>
          /\ ~lastOp.res[p].threw
          /\ \A q \in PeerIds :
               InSeq(q, downstream) => lastOp.res[q].attempts = 1)
  /\ [][lastOp'.kind \in {"recv", "broadcast"} =>
          UNCHANGED <<started, relay, listeners, upstream, downstream, peers,
                      chans, nextChan>>]_vars

\* send() throws on the first of two links and the second takes the frame
C17_Witness ==
  /\ lastOp.kind = "recv"
  /\ lastOp.thr = {"d1"}
  /\ downstream = <<"d1", "d2">>
  /\ lastOp.res["d1"].sends = 1
  /\ lastOp.res["d2"].got = <<lastOp.data>>


(***************************************************************************)
(* SpecPcm: one raw frame through the PCM fallback encoder, the framing    *)
(* and the PCM branch of the listener.  A raw sample n stands for the      *)
(* amplitude n / PcmDen; a decoded sample is the fraction num / den.  The  *)
(* bytes of an Int16Array are taken in little-endian order on both sides.  *)
(***************************************************************************)
\* 0x8000 and 0x7FFF, the scales of the negative and the other samples
PCM_NEG_SCALE == 32768
PCM_POS_SCALE == 32767

Abs(x) == IF x < 0 THEN -x ELSE x

\* the Number -> Int16 conversion of a typed-array store: the fraction is
\* cut off (num / den towards zero), then the value wraps modulo 2^16
ToInt16(num, den) ==
  LET t == IF num < 0 THEN -((-num) \div den) ELSE num \div den
  IN ((t + 32768) % 65536) - 32768

\* encode of the PCM fallback, one sample: clamp to [-1, 1], scale, store
PcmEncodeSample(n) ==
  LET c == IF n > PcmDen THEN PcmDen ELSE IF n < -PcmDen THEN -PcmDen ELSE n
  IN IF c < 0 THEN ToInt16(c * PCM_NEG_SCALE, PcmDen)
     ELSE ToInt16(c * PCM_POS_SCALE, PcmDen)

\* the two bytes of an Int16Array element in pcm.buffer
Int16Bytes(v) ==
  LET u == (v + 65536) % 65536 IN <<u % 256, u \div 256>>

\* the element an Int16Array view reads from two bytes
BytesToInt16(lo, hi) ==
  LET u == lo + 256 * hi IN IF u >= 32768 THEN u - 65536 ELSE u

RECURSIVE PcmBuffer(_)
\* pcm.buffer for the samples of a frame
PcmBuffer(samples) ==
  IF samples = <<>> THEN <<>>
  ELSE Int16Bytes(PcmEncodeSample(Head(samples))) \o PcmBuffer(Tail(samples))

\* encode(data) of the PCM fallback: the frame handed to broadcast()
PcmEncode(samples) == BroadcastFrame(PcmBuffer(samples), FALSE)

\* the PCM branch of _onAudioData, the variant that divides every sample by
\* 0x8000
PcmDecodeOneScale(payload) ==
  [i \in 1..(Len(payload) \div 2) |->
     [num |-> BytesToInt16(payload[2 * i - 1], payload[2 * i]),
      den |-> PCM_NEG_SCALE]]

\* the PCM branch of _onAudioData: an Int16Array over the payload, each
\* element divided by 0x8000 when negative and by 0x7FFF otherwise
PcmDecode(payload) ==
  [i \in 1..(Len(payload) \div 2) |->
     LET v == BytesToInt16(payload[2 * i - 1], payload[2 * i])
     IN [num |-> v, den |-> IF v < 0 THEN PCM_NEG_SCALE ELSE PCM_POS_SCALE]]

\* the raw samples the frames are made of: every amplitude first, then the
\* extremes and the steps next to zero
PcmTailSamples == {-PcmDen, -1, 0, 1, PcmDen}

PcmFrames ==
  UNION {[1..k -> (-PcmDen)..PcmDen] : k \in 1..MaxPcmLen}

InitPcm ==
  /\ IdleRelay
  /\ IdleTree
  /\ IdleGate
  /\ IdlePlay
  /\ IdleSteady
  /\ IdleSession
  /\ IdlePair
  /\ IdleCap
  /\ pcmRaw \in {f \in PcmFrames : \A i \in 2..Len(f) : f[i] \in PcmTailSamples}
  /\ pcmWire = <<>>
  /\ pcmOut = <<>>
  /\ pcmStage = "raw"

\* _onFrame with the PCM fallback encoder: encode, _broadcastFrame
PcmSend ==
  /\ pcmStage = "raw"
  /\ pcmWire' = PcmEncode(pcmRaw)
  /\ pcmStage' = "sent"
  /\ UNCHANGED <<pcmRaw, pcmOut>>

\* _onAudioData of the listener for the frame: the PCM branch
PcmReceive ==
  /\ pcmStage = "sent"
  /\ Len(pcmWire) >= 2
  /\ Head(pcmWire) # 1
  /\ pcmOut' = PcmDecode(Tail(pcmWire))
  /\ pcmStage' = "played"
  /\ UNCHANGED <<pcmRaw, pcmWire>>

StepPcm ==
  \/ PcmSend
  \/ PcmReceive

NextPcm == StepPcm /\ UNCHANGED <<relayVars, treeVars, gateVars, playVars, steadyVars, sessVars, pairVars, capVars>>

SpecPcm == InitPcm /\ [][NextPcm]_vars

\* C21: a raw frame with samples in [-1, 1] that went through the PCM
\* fallback encoder and the listener's PCM branch comes out with as many
\* samples, in the same order, each within 1/32767 of the sample it stands
\* for; the wire frame is the tag 0 and two bytes per sample.
C21_PcmRoundTrip ==
  /\ pcmStage # "raw" =>
       /\ Head(pcmWire) = 0
       /\ Len(pcmWire) = 1 + 2 * Len(pcmRaw)
  /\ pcmStage = "played" =>
       /\ Len(pcmOut) = Len(pcmRaw)
       /\ \A i \in 1..Len(pcmRaw) :
            Abs(pcmRaw[i] * pcmOut[i].den - pcmOut[i].num * PcmDen) * PCM_POS_SCALE
              <= PcmDen * pcmOut[i].den

\* a frame of a negative and the full positive amplitude, where
\* the cut-off fraction is not zero, has been played
C21_Witness ==
  /\ pcmStage = "played"
  /\ Len(pcmRaw) = 2
  /\ pcmRaw[1] = -(PcmDen - 1)
  /\ pcmRaw[2] = PcmDen
  /\ pcmOut[1].num < 0
  /\ pcmOut[1].num * PcmDen # pcmRaw[1] * PCM_NEG_SCALE
  /\ pcmOut[2].num = PCM_POS_SCALE


\* C22: a channel offered under a label other than '_audio' changes nothing
\* of the manager, the peers or the channels; a channel that arrives open
\* under '_audio' becomes the offering peer's audio channel and gets the
\* receive handler exactly when the manager listens; and no channel of
\* another label ever carries the receive handler.
C22_OnlyAudioLabelAccepted ==
  /\ [](\A c \in ChanIds : chans[c].onmessage # NoPeer => chans[c].label = "_audio")
  /\ [][/\ lastOp'.kind = "offerOther" =>
             UNCHANGED <<started, relay, listeners, upstream, downstream, peers,
                         chans, nextChan>>
        /\ \A c \in ChanIds, p \in PeerIds :
             ( /\ chans[c].readyState = "none"
               /\ chans'[c].readyState = "open"
               /\ peers'[p].cached = c ) =>
               /\ chans'[c].label = "_audio"
               /\ IF listeners["datachannel"] > 0
                  THEN peers'[p].audio = c /\ chans'[c].onmessage = p
                  ELSE peers'[p].audio = peers[p].audio
                       /\ chans'[c].onmessage = NoPeer
       ]_vars

\* a started manager with a wired upstream channel has just seen an offer
\* under another label
C22_Witness ==
  /\ lastOp.kind = "offerOther"
  /\ started
  /\ lastOp.from = UpId
  /\ peers[UpId].audio # NoChan
  /\ chans[peers[UpId].audio].onmessage = UpId
  /\ nextChan <= MaxChans


\* C23: while the manager is started, a peer's channel reference, once set,
\* changes only when the peer disconnects or when the channel it names
\* closes (for a peer that has offered no channel of its own); and after a peer's 'peerdisconnect' the reference is cleared and
\* no frame operation tries the peer.
C23_ReferenceHeldUntilDisconnect ==
  /\ [][\A p \in PeerIds :
          ( /\ started
            /\ started'
            /\ peers[p].audio # NoChan
            /\ peers'[p].cached = NoChan
            /\ peers'[p].audio # peers[p].audio ) =>
            \/ peers'[p].life = "gone"
            \/ /\ chans[peers[p].audio].readyState # "closed"
               /\ chans'[peers[p].audio].readyState = "closed"
       ]_vars
  /\ [][\A p \in PeerIds :
          (started /\ peers[p].life # "gone" /\ peers'[p].life = "gone") =>
            peers'[p].audio = NoChan
       ]_vars
  /\ [](\A p \in PeerIds :
          peers[p].life = "gone" => lastOp.res[p].attempts = 0)


\* C24: a process call that starts draining ends buffering only when the
\* underruns counted were one uninterrupted streak: no sample was played
\* between them, neither in earlier calls nor in this one.
C24_OnlyStreakRebuffers ==
  (plast.kind = "tick" /\ ~plast.wasBuffering /\ buffering) =>
    /\ plast.preStreak
    /\ plast.preUnderruns = 0 \/ Silent(plast.out) = Len(plast.out)


\* the unread samples of a ring, oldest first
ContentsOf(rb, ri, b) == [i \in 1..b |-> rb[(ri + i - 1) % SampleRate]]

Contents == ContentsOf(ringBuffer, readIndex, bufferedSamples)

LastOf(s, k) == SubSeq(s, Len(s) - k + 1, Len(s))

Min(a, b) == IF a < b THEN a ELSE b

\* the sample that follows v in the order the samples are made in
NextVal(v) == (v % Cardinality(SampleVals)) + 1

\* C25: bufferedSamples never exceeds the ring's length; the unread samples
\* are always the most recently enqueued ones in arrival order; and an
\* enqueue leaves in the ring the last min(old + new, length) samples of
\* what was unread followed by what arrived, so that an overflow discards
\* exactly the oldest unread samples.
C25_OverflowDropsOldest ==
  /\ [](/\ bufferedSamples <= SampleRate
        /\ \A i \in 1..bufferedSamples :
             /\ i < bufferedSamples => Contents[i + 1] = NextVal(Contents[i])
             /\ i = bufferedSamples => nextSample = NextVal(Contents[i]))
  /\ [][plast'.kind = "enqueue" =>
          \E n \in 0..MaxEnq :
            /\ nextSample' = ((nextSample + n - 1) % Cardinality(SampleVals)) + 1
            /\ bufferedSamples' = Min(bufferedSamples + n, SampleRate)
            /\ ContentsOf(ringBuffer', readIndex', bufferedSamples') =
                 LastOf(Contents \o SamplesFrom(nextSample, n), bufferedSamples')
       ]_vars

\* an enqueue into a ring one short of full has discarded unread samples
C25_Witness ==
  /\ plast.kind = "enqueue"
  /\ plast.preBuffered = SampleRate - 1
  /\ bufferedSamples = SampleRate
  /\ readIndex = (plast.preRead + MaxEnq - 1) % SampleRate
  /\ writeIndex = readIndex

\* C27: a process call that starts draining outputs the oldest unread
\* samples in the order of their arrival and removes exactly those from the
\* ring, the rest of the channel being silence; a process call that starts
\* buffering and an enqueue that does not overflow remove nothing, the
\* enqueue adding its samples behind the unread ones.
C27_NoReorderNoDuplicate ==
  [][/\ plast'.kind = "tick" =>
          LET k == IF buffering THEN 0 ELSE Min(bufferedSamples, Len(plast'.out))
          IN /\ SubSeq(plast'.out, 1, k) = SubSeq(Contents, 1, k)
             /\ \A i \in (k + 1)..Len(plast'.out) : plast'.out[i] = 0
             /\ ContentsOf(ringBuffer', readIndex', bufferedSamples') =
                  SubSeq(Contents, k + 1, bufferedSamples)
     /\ (plast'.kind = "enqueue" /\ bufferedSamples' > bufferedSamples) =>
          \E n \in 1..MaxEnq :
            /\ n >= bufferedSamples' - bufferedSamples
            /\ ContentsOf(ringBuffer', readIndex', bufferedSamples') =
                 LastOf(Contents \o SamplesFrom(nextSample, n), bufferedSamples')
    ]_vars

\* a draining call has read a full channel across the end of the ring
C27_Witness ==
  /\ plast.kind = "tick"
  /\ ~plast.wasBuffering
  /\ Silent(plast.out) = 0
  /\ Len(plast.out) = Quantum
  /\ readIndex < plast.preRead
  /\ bufferedSamples > 0
  /\ \A i \in 1..(Quantum - 1) : plast.out[i + 1] = NextVal(plast.out[i])
  /\ Contents[1] = NextVal(plast.out[Quantum])


\* C26: for an open downstream link the frame is dropped exactly when the
\* gauge read for it is strictly above the threshold: at the threshold
\* itself send() is called once with the frame; a dropped frame is not
\* handed to the channel, and a channel is handed nothing but the frame of
\* the operation under way, so no dropped frame is sent later.
C26_StrictThreshold ==
  /\ \A p \in PeerIds :
       (Directed(p) /\ LinkState(p) = "open") =>
         /\ lastOp.res[p].attempts = 1
         /\ lastOp.res[p].drops = IF Gauge(p) > AUDIO_BACKPRESSURE_THRESHOLD
                                  THEN 1 ELSE 0
         /\ lastOp.res[p].sends = IF Gauge(p) > AUDIO_BACKPRESSURE_THRESHOLD
                                  THEN 0 ELSE 1
         /\ lastOp.res[p].drops = 1 => lastOp.res[p].got = <<>>
         /\ (Gauge(p) = AUDIO_BACKPRESSURE_THRESHOLD /\ p \notin lastOp.thr) =>
              lastOp.res[p].got = <<lastOp.data>>
  /\ \A p \in PeerIds : lastOp.res[p].got \in {<<>>, <<lastOp.data>>}

\* one link at the threshold takes the frame while its sibling one above
\* the threshold drops it
C26_Witness ==
  /\ lastOp.kind = "broadcast"
  /\ Directed("d1") /\ LinkState("d1") = "open"
  /\ Gauge("d1") = AUDIO_BACKPRESSURE_THRESHOLD
  /\ lastOp.res["d1"].got = <<lastOp.data>>
  /\ Directed("d2") /\ LinkState("d2") = "open"
  /\ Gauge("d2") = AUDIO_BACKPRESSURE_THRESHOLD + 1
  /\ lastOp.res["d2"].drops = 1


\* start() has resolved, the object is started and holds the resources of
\* that one start() only: nothing of an earlier session is left
CleanSession ==
  /\ pipe.started
  /\ pipe.pc = "idle"
  /\ shist.outcome = "resolved"
  /\ ~shist.stopInFlight
  /\ held.ctx = 1
  /\ held.codec = 1
  /\ held.graphs = 1
  /\ held.mic = (IF role = "broadcaster" THEN 1 ELSE 0)

\* C28: the timestamp of a frame handed to the compressed encoder is
\* floor(S * 1,000,000 / sampleRate), S being the samples handed to that
\* encoder earlier in the session, so that the first frame of a session has
\* timestamp 0.
C28_SampleCountTimestamp ==
  (slast.kind = "capture" /\ slast.ts # -1 /\ CleanSession) =>
    slast.ts = (slast.before * MICROS_PER_SECOND) \div DEFAULT_SAMPLE_RATE

\* C29: the timestamp of a compressed frame handed to the decoder is n times
\* the nominal frame duration in microseconds, n being the compressed frames
\* the listener received earlier in the session, 0 for the first of them.
C29_FrameCountTimestamp ==
  (slast.kind = "recv" /\ slast.ts # -1 /\ CleanSession) =>
    slast.ts = slast.before * (DEFAULT_FRAME_SIZE * 1000)


\* C30: when a downstream peer is created while the manager is started, the
\* same step makes a new channel labelled '_audio' on it, still connecting
\* and before the peer has connected; and every channel the manager makes
\* (those carrying its open and close handlers) is labelled '_audio', is
\* unordered and has zero retransmissions.
C30_DownstreamLinkAtCreation ==
  /\ [](\A c \in ChanIds :
          chans[c].onopen # NoPeer =>
            /\ chans[c].label = "_audio"
            /\ ~chans[c].ordered
            /\ chans[c].maxRetransmits = 0)
  /\ [][\A p \in PeerIds :
          (started /\ ~InSeq(p, downstream) /\ InSeq(p, downstream')) =>
            /\ peers'[p].life = "created"
            /\ peers'[p].audio # NoChan
            /\ chans[peers'[p].audio] = NoChannel
            /\ chans'[peers'[p].audio] =
                 [CreateDataChannel("_audio", FALSE, 0)
                    EXCEPT !.onopen = p, !.onclose = p]
       ]_vars

\* a downstream peer that has not connected yet holds its connecting,
\* unordered, zero-retransmission channel
C30_Witness ==
  /\ started
  /\ peers["d1"].life = "created"
  /\ peers["d1"].audio # NoChan
  /\ chans[peers["d1"].audio].readyState = "connecting"
  /\ chans[peers["d1"].audio].onopen = "d1"
  /\ ~chans[peers["d1"].audio].ordered
  /\ chans[peers["d1"].audio].maxRetransmits = 0


\* C38: in every state of the playout ring the count of unread samples is
\* between 0 and the ring's length, both indices are inside the ring, and
\* the write index is the read index advanced by the count, modulo the
\* length.
C38_RingIndicesConsistent ==
  /\ bufferedSamples \in 0..SampleRate
  /\ readIndex \in 0..(SampleRate - 1)
  /\ writeIndex \in 0..(SampleRate - 1)
  /\ writeIndex = (readIndex + bufferedSamples) % SampleRate

\* a process call has just read samples from a ring whose unread part wraps
\* around the end of the buffer
C38_Witness ==
  /\ plast.kind = "tick"
  /\ ~plast.wasBuffering
  /\ Silent(plast.out) = 0
  /\ bufferedSamples > 0
  /\ writeIndex < readIndex


C40_GateRunsWhenDisabled ==
  (glast.seen /\ ~GateEnabled) =>
    /\ glast.pass
    /\ glast.rms >= GateThreshold =>
         /\ GateSpeaking
         /\ GateHangover = GateHangoverFrames
         /\ glast.ev = (IF glast.was THEN "none" ELSE "started")
    /\ glast.rms < GateThreshold =>
         /\ GateSpeaking = (glast.was /\ glast.quietBefore < GateHangoverFrames)
         /\ glast.ev = (IF glast.was /\ ~GateSpeaking THEN "stopped" ELSE "none")
         /\ glast.was =>
              GateHangover = (IF glast.quietBefore < GateHangoverFrames
                              THEN GateHangoverFrames - glast.quietBefore - 1
                              ELSE 0)
    /\ gpath = "script" =>
         /\ blast.kind = "frame"
         /\ blast.ev = BroadcasterEvent(glast.ev)

\* with gating disabled the end of speech has just been notified, and the
\* frame was passed on
C40_Witness ==
  /\ glast.seen
  /\ ~GateEnabled
  /\ glast.ev = "stopped"
  /\ glast.pass
  /\ ~GateSpeaking


(***************************************************************************)
(* SpecGatePair: the capture worklet's gate and the ScriptProcessor        *)
(* fallback's gate, constructed with the same vadEnabled and vadThreshold  *)
(* and fed the same frames.                                                *)
(***************************************************************************)
InitGatePair ==
  /\ IdleRelay
  /\ IdleTree
  /\ IdleGate
  /\ IdlePlay
  /\ IdleSteady
  /\ IdleSession
  /\ IdlePcm
  /\ IdleCap
  /\ \E enabled \in BOOLEAN, threshold \in ThresholdVals :
       gatePair = [worklet |-> NewGate(enabled, threshold),
                   script |-> NewGate(enabled, threshold)]
  /\ gatePairLast = NoPairFrame
  /\ playPair = [target |-> 0, worklet |-> NewRing, script |-> NewRing]
  /\ playPairLast = NoPairPlay
  /\ pairNext = 1

\* both paths complete a frame with this RMS: _processFrame in the worklet,
\* the frame branch of onaudioprocess in the fallback
PairFrame(rms) ==
  LET w == WorkletProcessFrame(rms, gatePair.worklet)
      sc == ScriptProcessFrame(rms, gatePair.script)
  IN /\ gatePair' = [worklet |-> [gatePair.worklet EXCEPT
                                    !.speaking = w.speaking,
                                    !.hangoverFrames = w.hangoverFrames],
                     script |-> [gatePair.script EXCEPT
                                   !.speaking = sc.speaking,
                                   !.hangoverFrames = sc.hangoverFrames]]
     /\ gatePairLast' = [seen |-> TRUE, rms |-> rms, wPass |-> w.pass,
                         sPass |-> sc.pass, wEv |-> w.ev, sEv |-> sc.ev]
     /\ UNCHANGED <<playPair, playPairLast, pairNext>>

StepGatePair == \E rms \in RmsVals : PairFrame(rms)

NextGatePair ==
  StepGatePair /\ UNCHANGED <<relayVars, treeVars, gateVars, playVars, steadyVars, sessVars, pcmVars, capVars>>

SpecGatePair == InitGatePair /\ [][NextGatePair]_vars

\* C36: fed the same frames from the same settings, the worklet gate and
\* the fallback gate pass or suppress each frame alike and notify the start
\* and the end of speech at the same frames.
C36_GatesEquivalent ==
  gatePairLast.seen =>
    /\ gatePairLast.wPass = gatePairLast.sPass
    /\ gatePairLast.wEv = gatePairLast.sEv


(***************************************************************************)
(* SpecPlayPair: the playback worklet's ring and the ScriptProcessor       *)
(* fallback's ring, set up with the same fill target and given the same    *)
(* enqueues and the same output calls.  The fallback's ring has the        *)
(* fields of the worklet's except the underrun counter, which stays 0.     *)
(***************************************************************************)
\* _enqueueScriptProcessorSamples(samples)
EnqueueScriptProcessorSamples(st, samples, target) ==
  LET st1 == EnqueueLoop(st, samples)
  IN IF st1.buffering /\ st1.bufferedSamples >= target
     THEN [st1 EXCEPT !.buffering = FALSE]
     ELSE st1

RECURSIVE ScriptOutputLoop(_, _, _)
\* the second for loop of the fallback's onaudioprocess
ScriptOutputLoop(st, j, out) ==
  IF j = 0 THEN [st |-> st, out |-> out]
  ELSE IF st.bufferedSamples > 0
       THEN ScriptOutputLoop([st EXCEPT
                                !.readIndex = (st.readIndex + 1) % SampleRate,
                                !.bufferedSamples = st.bufferedSamples - 1],
                             j - 1, Append(out, st.ringBuffer[st.readIndex]))
       ELSE ScriptOutputLoop(st, j - 1, Append(out, 0))

\* onaudioprocess of _setupScriptProcessorFallback for an output of n samples
ScriptOnAudioProcess(st, n) ==
  IF st.buffering THEN [st |-> st, out |-> [i \in 1..n |-> 0]]
  ELSE ScriptOutputLoop(st, n, <<>>)

InitPlayPair ==
  /\ IdleRelay
  /\ IdleTree
  /\ IdleGate
  /\ IdlePlay
  /\ IdleSteady
  /\ IdleSession
  /\ IdlePcm
  /\ IdleCap
  /\ gatePair = [worklet |-> NewGate(TRUE, 10), script |-> NewGate(TRUE, 10)]
  /\ gatePairLast = NoPairFrame
  /\ \E ms \in JitterBufferMs :
       playPair = [target |-> (SampleRate * ms) \div 1000, worklet |-> NewRing,
                   script |-> NewRing]
  /\ playPairLast = NoPairPlay
  /\ pairNext = 1

\* decoded samples are handed to both: a 'samples' message to the worklet,
\* _enqueueScriptProcessorSamples in the fallback
PairEnqueue(n) ==
  LET samples == SamplesFrom(pairNext, n)
  IN /\ playPair' = [playPair EXCEPT
                       !.worklet = EnqueueSamples(@, samples, playPair.target),
                       !.script = EnqueueScriptProcessorSamples(@, samples,
                                                                playPair.target)]
     /\ pairNext' = ((pairNext + n - 1) % Cardinality(SampleVals)) + 1
     /\ playPairLast' = [kind |-> "enqueue", wOut |-> <<>>, sOut |-> <<>>]
     /\ UNCHANGED <<gatePair, gatePairLast>>

\* both render Quantum samples: process of the worklet, onaudioprocess of
\* the fallback
PairTick ==
  LET w == PlaybackProcess(playPair.worklet, Quantum)
      sc == ScriptOnAudioProcess(playPair.script, Quantum)
  IN /\ playPair' = [playPair EXCEPT !.worklet = w.st, !.script = sc.st]
     /\ playPairLast' = [kind |-> "tick", wOut |-> w.out, sOut |-> sc.out]
     /\ UNCHANGED <<gatePair, gatePairLast, pairNext>>

StepPlayPair ==
  \/ \E n \in 0..MaxEnq : PairEnqueue(n)
  \/ PairTick

NextPlayPair ==
  StepPlayPair /\ UNCHANGED <<relayVars, treeVars, gateVars, playVars, steadyVars, sessVars, pcmVars, capVars>>

SpecPlayPair == InitPlayPair /\ [][NextPlayPair]_vars

\* C37: given the same enqueues and output calls, the worklet ring and the
\* fallback ring are in the same buffering state after every call and write
\* the same samples to every output.
C37_PlayoutsEquivalent ==
  /\ playPair.worklet.buffering = playPair.script.buffering
  /\ playPairLast.wOut = playPairLast.sOut


(***************************************************************************)
(* SpecCapture: a capture path accumulates the chunks of the audio thread  *)
(* into frames of SamplesPerFrame samples and hands each to its gate.  The *)
(* worklet posts a passed frame to its port; the fallback calls _onFrame.  *)
(***************************************************************************)
\* sample amplitudes, and the threshold, in the same unit
CapSampleVals == {0, 3}

\* a chunk: up to MaxChunk samples of one amplitude
CapChunks == {[i \in 1..k |-> v] : k \in 0..MaxChunk, v \in CapSampleVals}

RECURSIVE SumSquares(_)
SumSquares(f) == IF f = <<>> THEN 0 ELSE Head(f) * Head(f) + SumSquares(Tail(f))

\* the largest integer whose square is at most n
Isqrt(n) == CHOOSE r \in 0..n : r * r <= n /\ (r + 1) * (r + 1) > n

\* Math.sqrt(sumSquares / buffer.length), cut to an integer: against an
\* integer threshold the comparison comes out as for the square root itself
FrameRms(f) == Isqrt(SumSquares(f) \div Len(f))

\* the first n elements of the accumulation buffer, as a sequence
Filled(buf, n) == [i \in 1..n |-> buf[i - 1]]

RECURSIVE Flatten(_)
Flatten(fs) == IF fs = <<>> THEN <<>> ELSE Head(fs) \o Flatten(Tail(fs))

RECURSIVE Picked(_, _)
\* the frames of fs whose flag in bs is set, in order
Picked(fs, bs) ==
  IF fs = <<>> THEN <<>>
  ELSE (IF Head(bs) THEN <<Head(fs)>> ELSE <<>>) \o Picked(Tail(fs), Tail(bs))

RECURSIVE AccumulateShared(_, _, _)
\* the loop of process, the variant that posts its accumulation buffer
\* itself, not a copy: every later write shows in the frames posted before
AccumulateShared(path, st, samples) ==
  IF samples = <<>> THEN st
  ELSE LET buf == [st.buffer EXCEPT ![st.index] = Head(samples)]
           posted1 == [k \in 1..Len(st.posted) |->
                         [st.posted[k] EXCEPT ![st.index + 1] = Head(samples)]]
           idx == st.index + 1
       IN IF idx >= SamplesPerFrame
          THEN LET frame == Filled(buf, SamplesPerFrame)
                   r == IF path = "worklet"
                        THEN WorkletProcessFrame(FrameRms(frame), st.gate)
                        ELSE ScriptProcessFrame(FrameRms(frame), st.gate)
               IN AccumulateShared(path,
                    [buffer |-> buf, index |-> 0,
                     gate |-> [st.gate EXCEPT !.speaking = r.speaking,
                                              !.hangoverFrames = r.hangoverFrames],
                     handed |-> Append(st.handed, frame),
                     passes |-> Append(st.passes, r.pass),
                     posted |-> IF r.pass THEN Append(posted1, frame)
                                ELSE posted1],
                    Tail(samples))
          ELSE AccumulateShared(path, [st EXCEPT !.buffer = buf, !.index = idx,
                                                 !.posted = posted1],
                                Tail(samples))

RECURSIVE Accumulate(_, _, _)
\* the loop of CaptureProcessor.process (path "worklet") and of the
\* fallback's onaudioprocess (path "script"): each sample is stored at the
\* index; a full buffer goes through the gate, which hands on a copy of it
\* when it passes, and the index returns to 0
Accumulate(path, st, samples) ==
  IF samples = <<>> THEN st
  ELSE LET buf == [st.buffer EXCEPT ![st.index] = Head(samples)]
           idx == st.index + 1
       IN IF idx >= SamplesPerFrame
          THEN LET frame == Filled(buf, SamplesPerFrame)
                   r == IF path = "worklet"
                        THEN WorkletProcessFrame(FrameRms(frame), st.gate)
                        ELSE ScriptProcessFrame(FrameRms(frame), st.gate)
               IN Accumulate(path,
                    [buffer |-> buf, index |-> 0,
                     gate |-> [st.gate EXCEPT !.speaking = r.speaking,
                                              !.hangoverFrames = r.hangoverFrames],
                     handed |-> Append(st.handed, frame),
                     passes |-> Append(st.passes, r.pass),
                     posted |-> IF r.pass THEN Append(st.posted, frame)
                                ELSE st.posted],
                    Tail(samples))
          ELSE Accumulate(path, [st EXCEPT !.buffer = buf, !.index = idx],
                          Tail(samples))

\* new CaptureProcessor(options), or _setupCaptureScriptProcessor(source)
InitCapture ==
  /\ IdleRelay
  /\ IdleTree
  /\ IdleGate
  /\ IdlePlay
  /\ IdleSteady
  /\ IdleSession
  /\ IdlePcm
  /\ IdlePair
  /\ capPath \in {"worklet", "script"}
  /\ capBuffer = [i \in 0..(SamplesPerFrame - 1) |-> 0]
  /\ capIndex = 0
  /\ \E enabled \in BOOLEAN : capGate = NewGate(enabled, 2)
  /\ capLast = NoCapture

\* the audio thread hands a chunk to the capture path: process(inputs) of
\* the worklet, onaudioprocess of the fallback
CaptureChunk(chunk) ==
  LET st == Accumulate(capPath,
                       [buffer |-> capBuffer, index |-> capIndex,
                        gate |-> capGate, handed |-> <<>>, passes |-> <<>>,
                        posted |-> <<>>],
                       chunk)
  IN /\ capBuffer' = st.buffer
     /\ capIndex' = st.index
     /\ capGate' = st.gate
     /\ capLast' = [kind |-> "process", chunk |-> chunk, handed |-> st.handed,
                    passes |-> st.passes, posted |-> st.posted,
                    pending |-> Filled(capBuffer, capIndex)]
     /\ UNCHANGED capPath

StepCapture == \E chunk \in CapChunks : CaptureChunk(chunk)

NextCapture ==
  StepCapture /\ UNCHANGED <<relayVars, treeVars, gateVars, playVars, steadyVars, sessVars, pcmVars, pairVars>>

SpecCapture == InitCapture /\ [][NextCapture]_vars

\* C31: whatever the sizes of the chunks, the index stays inside the frame
\* between calls; every frame handed to the gate has SamplesPerFrame
\* samples; the samples pending before a call followed by the chunk are the
\* frames handed to the gate in the call, in order, followed by the samples
\* pending after it; and the frames passed on are, at the end of the call,
\* the frames the gate passed as they were when it saw them.
C31_FramesExactAcrossChunks ==
  /\ capIndex \in 0..(SamplesPerFrame - 1)
  /\ capLast.kind = "process" =>
       /\ \A i \in 1..Len(capLast.handed) :
            Len(capLast.handed[i]) = SamplesPerFrame
       /\ capLast.pending \o capLast.chunk =
            Flatten(capLast.handed) \o Filled(capBuffer, capIndex)
       /\ capLast.posted = Picked(capLast.handed, capLast.passes)

\* a chunk that began inside one frame and completed it and the next one,
\* both passed on and different
C31_Witness ==
  /\ capLast.kind = "process"
  /\ Len(capLast.pending) > 0
  /\ Len(capLast.posted) = 2
  /\ capLast.posted[1] # capLast.posted[2]


\* C32: while the manager is started, a frame is emitted locally and relayed
\* only when it arrived on the channel of the node's current upstream peer.
C32_OnlyUpstreamFramesDelivered ==
  (started /\ lastOp.kind = "recv" /\ lastOp.from # upstream) =>
    /\ lastOp.emits = 0
    /\ \A p \in PeerIds : lastOp.res[p].attempts = 0

\* C33: on a listener whose second start() has resolved after a stop(), a
\* frame that can be played produces one 'audio' event and is handed to the
\* playout path once.
C33_RestartedListenerHearsOnce ==
  (role = "listener" /\ slast.kind = "recv" /\ CleanSession
     /\ held.starts = 2 /\ Len(slast.data) >= 2 /\ Head(slast.data) = 0) =>
    /\ slast.audio = 1
    /\ slast.sent = 1

\* C34: a frame that arrives while the manager is stopped is neither
\* emitted locally nor forwarded to a downstream peer.
C34_StoppedManagerIsSilent ==
  (~started /\ lastOp.kind \in {"recv", "unheard"}) =>
    /\ lastOp.kind = "unheard"
    /\ lastOp.emits = 0
    /\ \A p \in PeerIds : lastOp.res[p].attempts = 0

\* C35: the close of a channel that is not a peer's current audio channel
\* leaves that peer's reference as it is.
C35_CloseClearsOwnChannelOnly ==
  [][\A c \in ChanIds, p \in PeerIds :
       ( /\ chans[c].readyState # "closed"
         /\ chans'[c].readyState = "closed"
         /\ peers[p].audio # NoChan
         /\ peers[p].audio # c ) =>
         peers'[p].audio = peers[p].audio]_vars

====
